---- MODULE Spec2Model ----
(***************************************************************************)
(* Athlete classification and periodization derivation, as implemented in  *)
(* athletes/scripts: the ATP table and phase progression of                *)
(* generate_html_guide.py, the strength phases of generate_athlete_guide.py*)
(* and the classifiers of generate_dashboard.py.                           *)
(***************************************************************************)
EXTENDS Integers, Sequences, FiniteSets, TLC

\* ------------------------------------------------------------------ bounds
\* plan lengths tried: derived['plan_weeks'] ranges over -MaxNegWeeks..MaxPlanWeeks
MaxNegWeeks == 2
MaxPlanWeeks == 24
\* a profile under analysis sets at most MaxFieldsSet fields, has at most
\* MaxNullSections null sections and at most MaxInjuries current injuries
MaxFieldsSet == 3
\* the same for a dashboard run and for a blindspot analysis, which read more fields
MaxDashFields == 2
MaxBlindFields == 2
MaxNullSections == 1
\* a nutrition calculation departs from the questionnaire answers in at most
\* MaxNutritionVariants fields or null sections
MaxNutritionVariants == 1
MaxInjuries == 2
\* a_events, b_events and c_events each hold at most MaxEvents events
MaxEvents == 1
\* validate_submission calls made in one day
MaxSubmissions == 7

VARIABLES
    derived_plan_weeks, \* derived.yaml: <<>> when the key is absent, <<n>> otherwise
    pc,                 \* position of the run
    plan_weeks,         \* local plan_weeks of _generate_atp_table
    phase_ranges,       \* local phase_ranges of _generate_atp_table
    week,               \* loop variable of the week-row loop
    week_rows,          \* rows appended so far
    weeks_in_phase,     \* generate_athlete_guide: weeks per strength phase
    outcome,            \* how the call ended: "pending", "returned" or an exception name
    fld,                \* profile.yaml / derived.yaml: value of every (section, field)
    nullsec,            \* sections of profile.yaml whose value is null
    cur_injuries,       \* injury_history.current_injuries
    today,              \* date.today() / datetime.now() of the run
    risk_history,       \* results of the successive get_risk_level calls
    risk_level,         \* generate_dashboard: result of get_risk_level
    rider_ability,      \* generate_dashboard: result of classify_rider_ability
    tier_reasoning,     \* generate_dashboard: the parts of get_tier_reasoning's text
    training_system,    \* generate_dashboard: result of recommend_training_system
    limiter,            \* generate_dashboard: result of identify_limiter
    coaching_priorities,\* generate_dashboard: result of generate_coaching_priorities
    raised,             \* exception each of those calls ended with, or "none"
    blindspots,         \* _generate_blindspots: the blindspots list and how the call ended
    nutrition,          \* _generate_nutrition_section: its locals and how the call ended
    race_profile,       \* profile.yaml: target_race, a_events, b_events, c_events
    all_events,         \* _generate_race_timeline: all_events after the sort
    previous_run,       \* what the derivation run before this one produced
    form,               \* the intake form: form_data of create_profile_from_form
    submission,         \* validate_submission: what the last call returned
    created,            \* create_profile_from_form: how the call ended
    rate_limits,        \* .github/rate-limits.json
    runs,               \* the validate_submission runs in progress
    accepted            \* submissions accepted so far, per email key

planVars == <<derived_plan_weeks, pc, plan_weeks, phase_ranges, week, week_rows,
              weeks_in_phase, outcome>>

planData == <<derived_plan_weeks, plan_weeks, phase_ranges, week, week_rows,
              weeks_in_phase, outcome>>

profVars == <<fld, nullsec, cur_injuries, today>>

dashVars == <<risk_level, rider_ability, tier_reasoning, training_system, limiter,
              coaching_priorities, raised>>

\* what the sections of the HTML guide compute
guideVars == <<blindspots, nutrition, race_profile, all_events>>

\* the intake of a submission
intakeVars == <<form, submission, created, rate_limits, runs, accepted>>

vars == <<planVars, profVars, risk_history, dashVars, guideVars, previous_run, intakeVars>>

\* what the planner runs leave alone
nonPlanVars == <<profVars, risk_history, dashVars, guideVars, previous_run, intakeVars>>

\* ------------------------------------------------- generate_html_guide.py
\* derived.get('plan_weeks', 12)
DerivedPlanWeeks(d) == IF d = <<>> THEN 12 ELSE d[1]

Range(s, e, n) == [start |-> s, end |-> e, name |-> n]

\* a template whose middle threshold was written > 12 instead of >= 12
PhaseRangesStrictThreshold(pw) ==
    IF pw >= 20 THEN
        << Range(1, 4, "Base"), Range(5, 12, "Build"),
           Range(13, 18, "Peak"), Range(19, pw, "Taper") >>
    ELSE IF pw > 12 THEN
        << Range(1, 3, "Base"), Range(4, 7, "Build"),
           Range(8, 10, "Peak"), Range(11, pw, "Taper") >>
    ELSE
        << Range(1, 2, "Base"), Range(3, 5, "Build"),
           Range(6, pw - 1, "Peak"), Range(pw, pw, "Taper") >>

\* phase_ranges of _generate_atp_table (the css class of each range repeats
\* the name in lower case and is left out)
PhaseRanges(pw) ==
    IF pw >= 20 THEN
        << Range(1, 4, "Base"), Range(5, 12, "Build"),
           Range(13, 18, "Peak"), Range(19, pw, "Taper") >>
    ELSE IF pw >= 12 THEN
        << Range(1, 3, "Base"), Range(4, 7, "Build"),
           Range(8, 10, "Peak"), Range(11, pw, "Taper") >>
    ELSE
        << Range(1, 2, "Base"), Range(3, 5, "Build"),
           Range(6, pw - 1, "Peak"), Range(pw, pw, "Taper") >>

\* get_phase(week): the first range that contains the week, else 'Build'
get_phase(ranges, w) ==
    LET hits == { i \in 1..Len(ranges) : ranges[i].start <= w /\ w <= ranges[i].end }
    IN  IF hits = {} THEN "Build"
        ELSE ranges[CHOOSE i \in hits : \A j \in hits : i <= j].name

\* len(week_focuses[phase_name])
FocusCount(name) == IF name = "Build" THEN 6 ELSE 4

\* index into week_focuses[phase_name]: phase_week_num % len(focuses), where
\* phase_week_num = week - start of the first range of that name
FocusIndex(ranges, w, name) ==
    LET named == { i \in 1..Len(ranges) : ranges[i].name = name }
        first == CHOOSE i \in named : \A j \in named : i <= j
    IN  (w - ranges[first].start) % FocusCount(name)

\* a recovery flag that forgets the Taper exclusion
IsRecoveryEveryFourth(w, name) == w % 4 = 0

\* is_recovery = week % 4 == 0 and phase_name not in ['Taper']
IsRecovery(w, name) == w % 4 = 0 /\ name \notin {"Taper"}

Min(a, b) == IF a <= b THEN a ELSE b

VolumeLabels == << "Low", "Medium", "High", "Peak" >>

\* 'Recovery' if is_recovery else ['Low','Medium','High','Peak'][min(3, week % 4)]
VolumeLabel(w, rec) == IF rec THEN "Recovery" ELSE VolumeLabels[Min(3, w % 4) + 1]

WeekRow(ranges, w) ==
    LET name == get_phase(ranges, w)
        rec  == IsRecovery(w, name)
    IN  [ week |-> w, phase_name |-> name,
          focus_index |-> FocusIndex(ranges, w, name),
          is_recovery |-> rec, volume_label |-> VolumeLabel(w, rec) ]

\* phases of _generate_phase_progression: (cycling phase, weeks shown, strength
\* phase); the weeks text "a-b" is kept as the pair first, last and the single
\* number of the short template's Taper as first = last
Card(c, f, l, s) == [cycling |-> c, first |-> f, last |-> l, strength |-> s]

Phases(pw) ==
    IF pw >= 20 THEN
        << Card("Base", 1, 4, "Learn to Lift"), Card("Build", 5, 12, "Lift Heavy Sh*t"),
           Card("Peak", 13, 18, "Lift Fast"), Card("Taper", 19, 20, "Don't Lose It") >>
    ELSE IF pw >= 12 THEN
        << Card("Base", 1, 3, "Learn to Lift"), Card("Build", 4, 7, "Lift Heavy Sh*t"),
           Card("Peak", 8, 10, "Lift Fast"), Card("Taper", 11, 12, "Don't Lose It") >>
    ELSE
        << Card("Base", 1, 2, "Learn to Lift"), Card("Build", 3, 4, "Lift Heavy Sh*t"),
           Card("Peak", 5, pw - 1, "Lift Fast"), Card("Taper", pw, pw, "Don't Lose It") >>

\* the strength phase shown next to a cycling phase
StrengthOf(pw, cycling) ==
    LET ps == Phases(pw)
    IN  ps[CHOOSE i \in 1..Len(ps) : ps[i].cycling = cycling].strength

\* ---------------------------------------------- generate_athlete_guide.py
StrengthPhases == << "Learn to Lift", "Lift Heavy Sh*t", "Lift Fast", "Don't Lose It" >>

get_phase_for_week(w, pw) ==
    IF pw >= 20 THEN
        IF w <= 6 THEN "Learn to Lift"
        ELSE IF w <= 12 THEN "Lift Heavy Sh*t"
        ELSE IF w <= 18 THEN "Lift Fast"
        ELSE "Don't Lose It"
    ELSE IF pw >= 12 THEN
        IF w <= 4 THEN "Learn to Lift"
        ELSE IF w <= 8 THEN "Lift Heavy Sh*t"
        ELSE IF w <= 10 THEN "Lift Fast"
        ELSE "Don't Lose It"
    ELSE
        IF w <= 2 THEN "Learn to Lift"
        ELSE IF w <= 4 THEN "Lift Heavy Sh*t"
        ELSE IF w <= pw - 1 THEN "Lift Fast"
        ELSE "Don't Lose It"

\* weeks_in_phase of the phase-by-phase guide, for every key of PHASE_DETAILS
WeeksInPhase(pw) ==
    [ i \in 1..Len(StrengthPhases) |->
        { w \in 1..pw : get_phase_for_week(w, pw) = StrengthPhases[i] } ]

\* ------------------------------------------------ profile and YAML values
\* A YAML value: the key is absent, the value is null, a number, a string or a
\* list of n items or a boolean.  W/kg is kept in tenths (3.5 W/kg is 35).
Absent  == [t |-> "absent", n |-> 0, s |-> ""]
Null    == [t |-> "null", n |-> 0, s |-> ""]
Num(x)  == [t |-> "num", n |-> x, s |-> ""]
Str(x)  == [t |-> "str", n |-> 0, s |-> x]
List(x) == [t |-> "list", n |-> x, s |-> ""]
Bool(x) == [t |-> "bool", n |-> IF x THEN 1 ELSE 0, s |-> ""]

\* dict.get(key, default): the default stands in for an absent key only
Get(v, default) == IF v.t = "absent" THEN default ELSE v

\* dict.get(key): None for an absent key
GetNone(v) == Get(v, Null)

\* truth value of a Python object
Truthy(v) ==
    CASE v.t = "num"  -> v.n # 0
      [] v.t = "bool" -> v.n # 0
      [] v.t = "str"  -> v.s # ""
      [] v.t = "list" -> v.n # 0
      [] OTHER        -> FALSE

\* Comparisons of a value with an int literal give "T", "F", or "E" when
\* Python raises TypeError (None or a str against an int)
GE(v, k) == IF v.t # "num" THEN "E" ELSE IF v.n >= k THEN "T" ELSE "F"
GT(v, k) == IF v.t # "num" THEN "E" ELSE IF v.n > k THEN "T" ELSE "F"
LT(v, k) == IF v.t # "num" THEN "E" ELSE IF v.n < k THEN "T" ELSE "F"
B(x) == IF x THEN "T" ELSE "F"
\* a and b, a or b: b is evaluated only when a does not decide
And3(a, b) == IF a = "T" THEN b ELSE a
Or3(a, b) == IF a = "F" THEN b ELSE a

IsStrIn(v, set) == v.t = "str" /\ v.s \in set

\* the (section, field) pairs the generators read
AllKeys ==
    { <<"health_factors", "age">>,
      <<"health_factors", "sleep_quality">>,
      <<"health_factors", "sleep_hours_avg">>,
      <<"health_factors", "stress_level">>,
      <<"training_history", "years_cycling">>,
      <<"training_history", "years_structured">>,
      <<"training_history", "current_weekly_hours">>,
      <<"training_history", "highest_weekly_hours">>,
      <<"fitness_markers", "w_kg">>,
      <<"fitness_markers", "ftp_watts">>,
      <<"recent_training", "last_12_weeks">>,
      <<"weekly_availability", "cycling_hours_target">>,
      <<"target_race", "goal_type">>,
      <<"methodology_preferences", "preferred_approach">>,
      <<"lifestyle", "alcohol_drinks_per_week">>,
      <<"nutrition", "fuels_during_rides">>,
      <<"schedule_constraints", "travel_frequency">>,
      <<"movement_limitations", "deep_squat">>,
      <<"movement_limitations", "hip_hinge">>,
      <<"movement_limitations", "single_leg_balance">>,
      <<"movement_limitations", "push_up_position">>,
      <<"movement_limitations", "notes">>,
      <<"derived", "tier">>,
      <<"derived", "exercise_exclusions">>,
      <<"fitness_markers", "ftp_date">>,
      <<"training_history", "strength_background">>,
      <<"injury_history", "past_injuries">>,
      <<"derived", "equipment_tier">>,
      <<"weekly_availability", "total_hours_available">>,
      <<"profile", "birthday">>,
      <<"profile", "weight_loss_goal">>,
      <<"nutrition", "daily_carbs_g_per_kg">>,
      <<"nutrition", "eating_disorder_history">>,
      <<"nutrition", "alcohol_drinks_per_week">>,
      <<"nutrition", "caffeine_mg_per_day">>,
      <<"lifestyle", "caffeine_mg_per_day">>,
      <<"lifestyle", "coffee_cups_per_day">>,
      <<"profile", "weight_kg">>,
      <<"fitness_markers", "weight_kg">>,
      <<"profile", "height_cm">>,
      <<"demographics", "height_cm">>,
      <<"profile", "ftp_watts">>,
      <<"profile", "sex">>,
      <<"lifestyle", "active_job">>,
      <<"lifestyle", "weight_goal">> }

\* the values tried for each field when it is set
FieldAlts(k) ==
    CASE k = <<"health_factors", "age">> ->
             << Null, Num(39), Num(40), Num(45) >>
      [] k = <<"health_factors", "sleep_quality">> ->
             << Null, Str("poor"), Str("fair"), Str("good") >>
      [] k = <<"health_factors", "sleep_hours_avg">> ->
             << Null, Num(6), Num(7) >>
      [] k = <<"health_factors", "stress_level">> ->
             << Null, Str("high"), Str("very_high"), Str("moderate") >>
      [] k = <<"training_history", "years_cycling">> ->
             << Null, Str("10+"), Str("6-10"), Str("3-5") >>
      [] k = <<"training_history", "years_structured">> ->
             << Null, Num(1), Num(2), Num(3), Num(5), Num(6) >>
      [] k = <<"training_history", "current_weekly_hours">> ->
             << Null, Num(0), Num(6) >>
      [] k = <<"training_history", "highest_weekly_hours">> ->
             << Null, Num(10) >>
      [] k = <<"fitness_markers", "w_kg">> ->
             << Null, Num(29), Num(30), Num(35), Num(38), Num(40) >>
      [] k = <<"fitness_markers", "ftp_watts">> ->
             << Null, Num(0), Num(220) >>
      [] k = <<"recent_training", "last_12_weeks">> ->
             << Null, Str("consistent"), Str("sporadic") >>
      [] k = <<"weekly_availability", "cycling_hours_target">> ->
             << Null, Num(10), Num(11) >>
      [] k = <<"target_race", "goal_type">> ->
             << Null, Str("finish"), Str("compete") >>
      [] k = <<"methodology_preferences", "preferred_approach">> ->
             << Null, Str("polarized"), Str("Polarized"), Str("block") >>
      [] k = <<"lifestyle", "alcohol_drinks_per_week">> ->
             << Null, Num(6), Num(7), Num(8), Num(10), Num(11), Num(14) >>
      [] k = <<"nutrition", "fuels_during_rides">> ->
             << Null, Str("rarely"), Str("never"), Str("always") >>
      [] k = <<"schedule_constraints", "travel_frequency">> ->
             << Null, Str("frequent"), Str("none") >>
      [] k = <<"movement_limitations", "deep_squat">> ->
             << Null, Str("painful"), Str("limited"), Str("full") >>
      [] k = <<"movement_limitations", "hip_hinge">> ->
             << Null, Str("significantly_limited"), Str("full") >>
      [] k = <<"movement_limitations", "single_leg_balance">> ->
             << Null, Str("limited") >>
      [] k = <<"movement_limitations", "push_up_position">> ->
             << Null, Str("painful") >>
      [] k = <<"movement_limitations", "notes">> ->
             << Str("") >>
      [] k = <<"derived", "tier">> ->
             << Null, Str("ayahuasca"), Str("finisher"), Str("compete"), Str("podium") >>
      [] k = <<"derived", "exercise_exclusions">> ->
             << Null, List(0), List(2) >>
      [] k = <<"fitness_markers", "ftp_date">> ->
             << Null, Str("2026-08-01"), Str("2026-09-06"), Str("2026-10-20"), Str("last summer") >>
      [] k = <<"training_history", "strength_background">> ->
             << Null, Str("none"), Str("beginner"), Str("intermediate") >>
      [] k = <<"injury_history", "past_injuries">> ->
             << Null, List(0), List(1) >>
      [] k = <<"derived", "equipment_tier">> ->
             << Null, Str("minimal"), Str("full") >>
      [] k = <<"weekly_availability", "total_hours_available">> ->
             << Null, Num(7), Num(8), Num(12) >>
      [] k = <<"profile", "birthday">> ->
             << Null, Str("1981-11-01"), Str("1981-11-02"), Str("1990-05-20"), Str("n/a") >>
      [] k = <<"profile", "weight_loss_goal">> ->
             << Bool(TRUE), Bool(FALSE) >>
      [] k = <<"nutrition", "daily_carbs_g_per_kg">> ->
             << Null, Num(2), Num(3) >>
      [] k = <<"nutrition", "eating_disorder_history">> ->
             << Bool(TRUE), Bool(FALSE) >>
      [] k = <<"nutrition", "alcohol_drinks_per_week">> ->
             << Num(7), Num(14) >>
      [] k = <<"nutrition", "caffeine_mg_per_day">> ->
             << Num(400) >>
      [] k = <<"lifestyle", "caffeine_mg_per_day">> ->
             << Null, Num(399), Num(400), Num(500) >>
      [] k = <<"lifestyle", "coffee_cups_per_day">> ->
             << Null, Num(4), Num(5), Num(6) >>
      [] k = <<"profile", "weight_kg">> ->
             << Null, Num(55), Num(70), Num(95) >>
      [] k = <<"fitness_markers", "weight_kg">> ->
             << Null, Num(60) >>
      [] k = <<"profile", "height_cm">> ->
             << Null, Num(160), Num(190) >>
      [] k = <<"demographics", "height_cm">> ->
             << Null, Num(170) >>
      [] k = <<"profile", "ftp_watts">> ->
             << Null, Num(250) >>
      [] k = <<"profile", "sex">> ->
             << Null, Str("male"), Str("Male"), Str("female") >>
      [] k = <<"lifestyle", "active_job">> ->
             << Bool(TRUE), Bool(FALSE) >>
      [] k = <<"lifestyle", "weight_goal">> ->
             << Null, Str("maintain"), Str("lose_slow"), Str("lose_fast"), Str("gain") >>

\* sections of profile.yaml (derived.yaml is a file of its own
\* and "profile" stands for the top level of profile.yaml)
ProfileSections == { k[1] : k \in AllKeys } \ {"derived", "profile"}

AltIndex == { i \in 1..9 : \E k \in AllKeys : i <= Len(FieldAlts(k)) }

\* the profiles tried over a set of keys: at most maxSet of the fields
\* set, the other fields absent, and at most MaxNullSections of the sections
\* without a field null
InitProfile(keys, maxSet) ==
    \E S \in { T \in SUBSET keys : Cardinality(T) <= maxSet } :
    \E g \in { h \in [ S -> AltIndex ] : \A k \in S : h[k] <= Len(FieldAlts(k)) } :
    \E N \in { M \in SUBSET (({ k[1] : k \in keys } \cap ProfileSections) \ { k[1] : k \in S }) :
                   Cardinality(M) <= MaxNullSections } :
        /\ fld = [ k \in AllKeys |-> IF k \in S THEN FieldAlts(k)[g[k]] ELSE Absent ]
        /\ nullsec = N

\* datetime.strptime(s, "%Y-%m-%d") for the date strings tried; ord is the
\* date's toordinal(), ok is FALSE where strptime raises ValueError
Date(y, m, d, o) == [ok |-> TRUE, y |-> y, m |-> m, d |-> d, ord |-> o]

ParseDate(str) ==
    CASE str = "2026-11-01" -> Date(2026, 11, 1, 739921)
      [] str = "2100-06-01" -> Date(2100, 6, 1, 766796)
      [] str = "2099-12-31" -> Date(2099, 12, 31, 766644)
      [] str = "2027-05-15" -> Date(2027, 5, 15, 740116)
      [] str = "2026-12-05" -> Date(2026, 12, 5, 739955)
      [] str = "2026-11-02" -> Date(2026, 11, 2, 739922)
      [] str = "2026-10-20" -> Date(2026, 10, 20, 739909)
      [] str = "2026-09-06" -> Date(2026, 9, 6, 739865)
      [] str = "2026-08-31" -> Date(2026, 8, 31, 739859)
      [] str = "2026-08-01" -> Date(2026, 8, 1, 739829)
      [] str = "1990-05-20" -> Date(1990, 5, 20, 726607)
      [] str = "1981-11-02" -> Date(1981, 11, 2, 723486)
      [] str = "1981-11-01" -> Date(1981, 11, 1, 723485)
      [] str = "1976-11-01" -> Date(1976, 11, 1, 721659)
      [] OTHER -> [ok |-> FALSE, y |-> 0, m |-> 0, d |-> 0, ord |-> 0]

\* the days on which a run is made
Today1 == ParseDate("2026-11-01")
Today2 == ParseDate("2026-11-02")
Todays == { Today1, Today2 }

NoRaise == [ f \in { "get_risk_level", "classify_rider_ability", "get_tier_reasoning",
                     "recommend_training_system", "identify_limiter",
                     "generate_coaching_priorities" } |-> "none" ]

NoDash ==
    /\ risk_level = "pending"
    /\ rider_ability = "pending"
    /\ tier_reasoning = <<>>
    /\ training_system = "pending"
    /\ limiter = "pending"
    /\ coaching_priorities = <<>>
    /\ raised = NoRaise

NoBlindspots == [exc |-> "pending", list |-> <<>>]

NoNutrition == [exc |-> "pending"]

NoRaces == [target_race |-> [t |-> "absent", name |-> Absent, date |-> Absent],
            a_events |-> [t |-> "absent", items |-> <<>>],
            b_events |-> [t |-> "absent", items |-> <<>>],
            c_events |-> [t |-> "absent", items |-> <<>>]]

\* the fields of the intake form that validate_submission and
\* create_profile_from_form read
FormFields ==
    { "name", "email", "primary_goal", "race_name", "race_date", "race_list", "age",
      "weekly_volume", "current_ftp", "current_injuries", "job_stress", "sleep_hours",
      "alcohol_intake", "fueling_strategy", "group_rides_per_week", "years_structured" }

\* a form without an answer: data holds the value of every field, limitations
\* the boxes ticked under "limitations", days the <day>_available boxes ticked
NoForm == [data |-> [ k \in FormFields |-> Absent ], limitations |-> {}, days |-> 0]

\* the addresses submissions come from, and email.lower() of each
Emails == { "ana@example.org", "Ana@Example.org", "bo@example.org" }

EmailKey(email) ==
    CASE email = "Ana@Example.org" -> "ana@example.org"
      [] OTHER -> email

EmailKeys == { EmailKey(e) : e \in Emails }

NoIntake ==
    /\ form = NoForm
    /\ submission = [outcome |-> "pending", errors |-> {}, email |-> "", calls |-> 0]
    /\ created = [exc |-> "pending", line |-> 0]
    /\ rate_limits = [exists |-> FALSE, data |-> <<>>]
    /\ runs = <<>>
    /\ accepted = [ k \in EmailKeys |-> 0 ]

NoGuide ==
    /\ blindspots = NoBlindspots
    /\ nutrition = NoNutrition
    /\ race_profile = NoRaces
    /\ all_events = [exc |-> "pending", events |-> <<>>]
    /\ previous_run = <<>>
    /\ NoIntake

NoProfile ==
    /\ fld = [ k \in AllKeys |-> Absent ]
    /\ nullsec = {}
    /\ cur_injuries = [t |-> "absent", items |-> <<>>]
    /\ today = Today1
    /\ risk_history = <<>>
    /\ NoDash
    /\ NoGuide

\* profile.get(section, {}) is None
SecNull(sec) == sec \in nullsec

\* profile.get(section, {}).get(field): the raw value, Absent for a missing key
F(sec, name) == fld[<<sec, name>>]

\* ------------------------------------------------- generate_dashboard.py
Levels == { "LOW", "MODERATE", "HIGH" }
Exceptions == { "TypeError", "AttributeError", "KeyError" }

\* injuries of a call: None and [] are both empty
Items(inj) == IF inj.t = "list" THEN inj.items ELSE <<>>

\* limitations.values(), for a section that is a dict
LimitationValues == { F(k[1], k[2]) : k \in { j \in AllKeys : j[1] = "movement_limitations" } }

\* limitations and any(v in [...] for v in limitations.values() if isinstance(v, str))
LimitationTrigger ==
    /\ ~SecNull("movement_limitations")
    /\ \E v \in LimitationValues : IsStrIn(v, {"limited", "significantly_limited", "painful"})

\* a severity test that fires only for exactly one such injury
get_risk_level_exactly_one(inj) ==
    LET items == Items(inj)
        high  == { i \in 1..Len(items) : items[i] \in {"moderate", "significant"} }
    IN  IF Cardinality(high) = 1 THEN "HIGH"
        ELSE IF Len(items) > 0 THEN "MODERATE"
        ELSE "LOW"

\* an alcohol test written >= 10
get_risk_level_alcohol_ge(inj) ==
    LET items == Items(inj)
        alcohol == GE(Get(F("lifestyle", "alcohol_drinks_per_week"), Num(0)), 10)
    IN  IF \E i \in 1..Len(items) : items[i] \in {"moderate", "significant"} THEN "HIGH"
        ELSE IF Len(items) > 0 THEN "MODERATE"
        ELSE IF SecNull("health_factors") THEN "AttributeError"
        ELSE IF IsStrIn(F("health_factors", "stress_level"), {"high", "very_high"}) THEN "MODERATE"
        ELSE IF IsStrIn(F("health_factors", "sleep_quality"), {"poor"}) THEN "MODERATE"
        ELSE IF LimitationTrigger THEN "MODERATE"
        ELSE IF SecNull("schedule_constraints") THEN "AttributeError"
        ELSE IF IsStrIn(F("schedule_constraints", "travel_frequency"), {"frequent"}) THEN "MODERATE"
        ELSE IF SecNull("lifestyle") THEN "AttributeError"
        ELSE IF alcohol = "E" THEN "TypeError"
        ELSE IF alcohol = "T" THEN "MODERATE"
        ELSE IF SecNull("nutrition") THEN "AttributeError"
        ELSE IF IsStrIn(F("nutrition", "fuels_during_rides"), {"rarely"}) THEN "MODERATE"
        ELSE "LOW"

\* get_risk_level(injuries, health, limitations, schedule, lifestyle, nutrition):
\* the five dicts are the profile's sections (None for a null section), the
\* checks run in the order of the early returns
get_risk_level(inj) ==
    LET items == Items(inj)
        alcohol == GT(Get(F("lifestyle", "alcohol_drinks_per_week"), Num(0)), 10)
    IN  IF \E i \in 1..Len(items) : items[i] \in {"moderate", "significant"} THEN "HIGH"
        ELSE IF Len(items) > 0 THEN "MODERATE"
        ELSE IF SecNull("health_factors") THEN "AttributeError"
        ELSE IF IsStrIn(F("health_factors", "stress_level"), {"high", "very_high"}) THEN "MODERATE"
        ELSE IF IsStrIn(F("health_factors", "sleep_quality"), {"poor"}) THEN "MODERATE"
        ELSE IF LimitationTrigger THEN "MODERATE"
        ELSE IF SecNull("schedule_constraints") THEN "AttributeError"
        ELSE IF IsStrIn(F("schedule_constraints", "travel_frequency"), {"frequent"}) THEN "MODERATE"
        ELSE IF SecNull("lifestyle") THEN "AttributeError"
        ELSE IF alcohol = "E" THEN "TypeError"
        ELSE IF alcohol = "T" THEN "MODERATE"
        ELSE IF SecNull("nutrition") THEN "AttributeError"
        ELSE IF IsStrIn(F("nutrition", "fuels_during_rides"), {"rarely"}) THEN "MODERATE"
        ELSE "LOW"

\* --------------------------------------- generate_dashboard.py classifiers
\* the branch taken on a test that may raise TypeError
If3(c, a, b) == IF c = "E" THEN "TypeError" ELSE IF c = "T" THEN a ELSE b

\* classify_rider_ability(profile, fitness)
classify_rider_ability ==
    IF \/ SecNull("training_history") \/ SecNull("fitness_markers")
       \/ SecNull("recent_training") \/ SecNull("health_factors")
    THEN "AttributeError"
    ELSE
    LET years_cycling    == Get(F("training_history", "years_cycling"), Str("0-2"))
        years_structured == Get(F("training_history", "years_structured"), Num(0))
        w_kg             == Get(F("fitness_markers", "w_kg"), Num(0))
        consistency      == Get(F("recent_training", "last_12_weeks"), Str("none"))
        age              == Get(F("health_factors", "age"), Num(0))
    IN  If3(GE(age, 40),
            If3(And3(GE(years_structured, 5), GE(w_kg, 35)),
                "MASTERS ADVANCED",
                If3(GE(years_structured, 2), "MASTERS INTERMEDIATE", "MASTERS BEGINNER")),
            If3(And3(B(IsStrIn(years_cycling, {"10+", "6-10"})),
                     And3(GE(years_structured, 5), GE(w_kg, 40))),
                "ADVANCED",
                If3(And3(GE(years_structured, 3), GE(w_kg, 35)),
                    "INTERMEDIATE",
                    If3(Or3(GE(years_structured, 1), B(consistency = Str("consistent"))),
                        "INTERMEDIATE",
                        "BEGINNER"))))

\* get_tier_reasoning(profile, derived): the exception raised, or "none" with
\* the parts the text is made of
get_tier_reasoning ==
    IF \/ SecNull("weekly_availability") \/ SecNull("training_history")
       \/ SecNull("target_race")
    THEN [exc |-> "AttributeError", val |-> <<>>]
    ELSE
    LET hours_current == Get(F("training_history", "current_weekly_hours"), Num(0))
        hours_peak    == Get(F("training_history", "highest_weekly_hours"), Num(0))
        goal          == Get(F("target_race", "goal_type"), Str("finish"))
        tier          == Get(F("derived", "tier"), Str("compete"))
        cur           == GT(hours_current, 0)
        peak          == GT(hours_peak, 0)
    IN  IF cur = "E" \/ peak = "E" THEN [exc |-> "TypeError", val |-> <<>>]
        ELSE [exc |-> "none",
              val |-> <<"available">>
                      \o (IF cur = "T" THEN <<"current">> ELSE <<>>)
                      \o (IF peak = "T" THEN <<"can sustain">> ELSE <<>>)
                      \o (IF goal # Str("finish") /\ IsStrIn(tier, {"ayahuasca", "finisher"})
                          THEN <<"goal mismatch">> ELSE <<>>)]

\* str.lower() on the strings tried
Lower(str) ==
    CASE str = "Polarized" -> "polarized"
      [] str = "Male"      -> "male"
      [] OTHER             -> str

\* "polarized" in s
ContainsPolarized(str) == str \in {"polarized", "polarized 80/20"}

\* the podium rule tested after the rule of the competitive tiers
recommend_training_system_rules_swapped ==
    IF SecNull("training_history") \/ SecNull("methodology_preferences")
    THEN "AttributeError"
    ELSE
    LET tier             == Get(F("derived", "tier"), Str("compete"))
        years_structured == Get(F("training_history", "years_structured"), Num(0))
        preferred        == Get(F("methodology_preferences", "preferred_approach"), Str(""))
    IN  If3(And3(B(IsStrIn(tier, {"compete", "podium"})), GE(years_structured, 3)),
            IF preferred.t # "str" THEN "AttributeError"
            ELSE IF ContainsPolarized(Lower(preferred.s))
                 THEN "POLARIZED -> BLOCK (transition)"
                 ELSE "POLARIZED",
            If3(And3(B(tier = Str("podium")), GE(years_structured, 5)),
                "BLOCK PERIODIZATION",
                IF tier = Str("finisher") THEN "POLARIZED" ELSE "POLARIZED (foundation)"))

\* recommend_training_system(profile, derived)
recommend_training_system ==
    IF SecNull("training_history") \/ SecNull("methodology_preferences")
    THEN "AttributeError"
    ELSE
    LET tier             == Get(F("derived", "tier"), Str("compete"))
        years_structured == Get(F("training_history", "years_structured"), Num(0))
        preferred        == Get(F("methodology_preferences", "preferred_approach"), Str(""))
    IN  If3(And3(B(tier = Str("podium")), GE(years_structured, 5)),
            "BLOCK PERIODIZATION",
            If3(And3(B(IsStrIn(tier, {"compete", "podium"})), GE(years_structured, 3)),
                IF preferred.t # "str" THEN "AttributeError"
                ELSE IF ContainsPolarized(Lower(preferred.s))
                     THEN "POLARIZED -> BLOCK (transition)"
                     ELSE "POLARIZED",
                IF tier = Str("finisher") THEN "POLARIZED" ELSE "POLARIZED (foundation)"))

\* the limiter appended last is returned
identify_limiter_last_appended ==
    LET w_kg    == LT(Get(F("fitness_markers", "w_kg"), Num(0)), 30)
        alcohol == GT(Get(F("lifestyle", "alcohol_drinks_per_week"), Num(0)), 10)
        limiters ==
            (IF F("nutrition", "fuels_during_rides") = Str("rarely")
             THEN <<"DURABILITY (fueling)">> ELSE <<>>)
            \o (IF ~Truthy(F("fitness_markers", "ftp_watts"))
                THEN <<"DURABILITY (no long ride data)">> ELSE <<>>)
            \o (IF w_kg = "T" THEN <<"POWER (low W/kg)">> ELSE <<>>)
            \o (IF F("health_factors", "sleep_quality") = Str("poor")
                THEN <<"RECOVERY (sleep)">> ELSE <<>>)
            \o (IF alcohol = "T" THEN <<"RECOVERY (alcohol)">> ELSE <<>>)
            \o (IF F("recent_training", "last_12_weeks") = Str("sporadic")
                THEN <<"CONSISTENCY">> ELSE <<>>)
    IN  IF SecNull("nutrition") \/ SecNull("fitness_markers") THEN "AttributeError"
        ELSE IF w_kg = "E" THEN "TypeError"
        ELSE IF SecNull("health_factors") \/ SecNull("lifestyle") THEN "AttributeError"
        ELSE IF alcohol = "E" THEN "TypeError"
        ELSE IF SecNull("recent_training") THEN "AttributeError"
        ELSE IF limiters # <<>> THEN limiters[Len(limiters)]
        ELSE "NONE IDENTIFIED"

\* identify_limiter(profile, fitness, nutrition, recent_training): every test
\* runs before limiters[0] is returned
identify_limiter ==
    LET w_kg    == LT(Get(F("fitness_markers", "w_kg"), Num(0)), 30)
        alcohol == GT(Get(F("lifestyle", "alcohol_drinks_per_week"), Num(0)), 10)
        limiters ==
            (IF F("nutrition", "fuels_during_rides") = Str("rarely")
             THEN <<"DURABILITY (fueling)">> ELSE <<>>)
            \o (IF ~Truthy(F("fitness_markers", "ftp_watts"))
                THEN <<"DURABILITY (no long ride data)">> ELSE <<>>)
            \o (IF w_kg = "T" THEN <<"POWER (low W/kg)">> ELSE <<>>)
            \o (IF F("health_factors", "sleep_quality") = Str("poor")
                THEN <<"RECOVERY (sleep)">> ELSE <<>>)
            \o (IF alcohol = "T" THEN <<"RECOVERY (alcohol)">> ELSE <<>>)
            \o (IF F("recent_training", "last_12_weeks") = Str("sporadic")
                THEN <<"CONSISTENCY">> ELSE <<>>)
    IN  IF SecNull("nutrition") \/ SecNull("fitness_markers") THEN "AttributeError"
        ELSE IF w_kg = "E" THEN "TypeError"
        ELSE IF SecNull("health_factors") \/ SecNull("lifestyle") THEN "AttributeError"
        ELSE IF alcohol = "E" THEN "TypeError"
        ELSE IF SecNull("recent_training") THEN "AttributeError"
        ELSE IF limiters # <<>> THEN limiters[1]
        ELSE "NONE IDENTIFIED"

\* calculate_ftp_age_weeks(ftp_date): <<>> for None, <<weeks>> otherwise; a
\* value strptime cannot parse ends in the bare except
calculate_ftp_age_weeks(ftp_date, now) ==
    IF ~Truthy(ftp_date) THEN <<>>
    ELSE IF ftp_date.t # "str" \/ ~ParseDate(ftp_date.s).ok THEN <<>>
    ELSE << (now.ord - ParseDate(ftp_date.s).ord) \div 7 >>

\* the list returned whole
FirstFiveUncapped(q) == q

\* priorities[:5]
FirstFive(q) == SubSeq(q, 1, Min(5, Len(q)))

\* generate_coaching_priorities(profile, fitness, derived, health, nutrition, lifestyle)
generate_coaching_priorities(now) ==
    LET ftp_age     == calculate_ftp_age_weeks(GetNone(F("fitness_markers", "ftp_date")), now)
        no_ftp      == ~Truthy(F("fitness_markers", "ftp_watts"))
        alcohol     == GT(Get(F("lifestyle", "alcohol_drinks_per_week"), Num(0)), 7)
        sleep_hours == Get(F("health_factors", "sleep_hours_avg"), Num(0))
        short_sleep == IF Truthy(sleep_hours) THEN LT(sleep_hours, 7) ELSE "F"
        sleep       == Or3(B(F("health_factors", "sleep_quality") = Str("poor")), short_sleep)
        exclusions  == Get(F("derived", "exercise_exclusions"), List(0))
        priorities ==
            (IF ftp_age # <<>> /\ ftp_age[1] # 0 /\ ftp_age[1] > 8 THEN <<"Retest FTP">>
             ELSE IF no_ftp THEN <<"Establish FTP baseline">> ELSE <<>>)
            \o (IF F("nutrition", "fuels_during_rides") = Str("rarely")
                THEN <<"Establish fueling protocol">> ELSE <<>>)
            \o (IF no_ftp THEN <<"Build long ride duration">> ELSE <<>>)
            \o (IF alcohol = "T" THEN <<"Address alcohol impact">> ELSE <<>>)
            \o (IF sleep = "T" THEN <<"Optimize sleep">> ELSE <<>>)
            \o (IF Truthy(exclusions) THEN <<"Verify exercise substitutions">> ELSE <<>>)
    IN  IF SecNull("fitness_markers") \/ SecNull("nutrition") \/ SecNull("lifestyle")
        THEN [exc |-> "AttributeError", val |-> <<>>]
        ELSE IF alcohol = "E" THEN [exc |-> "TypeError", val |-> <<>>]
        ELSE IF SecNull("health_factors") THEN [exc |-> "AttributeError", val |-> <<>>]
        ELSE IF sleep = "E" THEN [exc |-> "TypeError", val |-> <<>>]
        ELSE [exc |-> "none", val |-> FirstFive(priorities)]

\* ------------------------------------------------- generate_html_guide.py
\* isinstance(v, (int, float)); True and False are ints
IsNumber(v) == v.t = "num" \/ v.t = "bool"

\* GuideGenerator._calculate_age: <<>> for None, <<age>> otherwise; whatever
\* strptime raises ends in the bare except
_calculate_age(now) ==
    LET birthday == GetNone(F("profile", "birthday"))
        birth    == ParseDate(birthday.s)
    IN  IF ~Truthy(birthday) THEN <<>>
        ELSE IF birthday.t # "str" \/ ~birth.ok THEN <<>>
        ELSE << now.y - birth.y
                - (IF now.m < birth.m \/ (now.m = birth.m /\ now.d < birth.d)
                   THEN 1 ELSE 0) >>

Blindspot(severity, title) == [severity |-> severity, title |-> title]

\* the entry appended when no rule fired
NoMajorBlindspots == Blindspot("low", "No Major Blindspots Identified")

\* GuideGenerator._generate_blindspots: the exception raised, or "none" with
\* the severity and title of each entry of the list, in the order of the rules
_generate_blindspots(inj, now) ==
    LET \* 1. recovery capacity
        sleep_quality == Get(F("health_factors", "sleep_quality"), Str(""))
        sleep_hours   == Get(F("health_factors", "sleep_hours_avg"), Num(7))
        recovery ==
            IF IsStrIn(sleep_quality, {"poor", "fair"})
               \/ (IsNumber(sleep_hours) /\ sleep_hours.n < 7)
            THEN << Blindspot("high", "Recovery Deficit") >> ELSE <<>>
        \* 2. stress load
        stress ==
            IF IsStrIn(Get(F("health_factors", "stress_level"), Str("")), {"high", "very_high"})
            THEN << Blindspot("high", "Life Stress Overload") >> ELSE <<>>
        \* 3. strength background
        strength ==
            IF IsStrIn(Get(F("training_history", "strength_background"), Str("")),
                       {"none", "beginner"})
            THEN << Blindspot("medium", "Movement Quality Gap") >> ELSE <<>>
        \* 4. injury history
        injuries      == IF inj.t = "absent" THEN [t |-> "list", items |-> <<>>] ELSE inj
        past_injuries == Get(F("injury_history", "past_injuries"), List(0))
        has_injuries  == injuries.t = "list" /\ Len(injuries.items) > 0
        has_past      == Truthy(past_injuries)
        concat_raises == (has_injuries \/ has_past)
                             /\ (injuries.t # "list" \/ past_injuries.t # "list")
        injury ==
            IF has_injuries \/ has_past
            THEN << Blindspot(IF has_injuries THEN "high" ELSE "medium",
                              "Injury Management Required") >>
            ELSE <<>>
        \* 5. limited equipment
        equipment ==
            IF Get(F("derived", "equipment_tier"), Str("")) = Str("minimal")
            THEN << Blindspot("low", "Equipment Limitations") >> ELSE <<>>
        \* 6. schedule constraints
        total_hours == Get(F("weekly_availability", "total_hours_available"), Num(0))
        schedule ==
            IF IsNumber(total_hours) /\ total_hours.n < 8
            THEN << Blindspot("medium", "Time-Crunched Reality") >> ELSE <<>>
        \* 7. age considerations
        age == _calculate_age(now)
        masters ==
            IF age # <<>> /\ age[1] # 0 /\ age[1] >= 45
            THEN << Blindspot("medium", "Masters Recovery Window") >> ELSE <<>>
        \* 8. underfueling risk
        daily_carbs             == Get(F("nutrition", "daily_carbs_g_per_kg"), Num(0))
        fueling_during          == Get(F("nutrition", "fuels_during_rides"), Str(""))
        eating_disorder_history == Get(F("nutrition", "eating_disorder_history"), Bool(FALSE))
        weight_loss_goal        == Get(F("profile", "weight_loss_goal"), Bool(FALSE))
        cycling_hours           == Get(F("weekly_availability", "cycling_hours_target"), Num(0))
        underfueling_signals ==
            (IF IsNumber(daily_carbs) /\ daily_carbs.n > 0 /\ daily_carbs.n < 3
             THEN <<"low daily carb intake">> ELSE <<>>)
            \o (IF IsStrIn(fueling_during, {"never", "rarely"})
                THEN <<"rarely fueling during rides">> ELSE <<>>)
            \o (IF Truthy(eating_disorder_history)
                THEN <<"history of disordered eating">> ELSE <<>>)
            \o (IF Truthy(weight_loss_goal)
                THEN <<"active weight loss goal during training">> ELSE <<>>)
            \o (IF IsNumber(cycling_hours) /\ cycling_hours.n > 10 /\ ~Truthy(fueling_during)
                THEN <<"high training volume without mentioned fueling strategy">>
                ELSE <<>>)
        underfueling ==
            IF underfueling_signals # <<>>
            THEN << Blindspot(IF Truthy(eating_disorder_history)
                                 \/ Len(underfueling_signals) >= 2
                              THEN "high" ELSE "medium",
                              "Underfueling Risk") >>
            ELSE <<>>
        \* 9. alcohol consumption
        alcohol_lifestyle == Get(F("lifestyle", "alcohol_drinks_per_week"), Num(0))
        alcohol == IF ~Truthy(alcohol_lifestyle)
                   THEN Get(F("nutrition", "alcohol_drinks_per_week"), Num(0))
                   ELSE alcohol_lifestyle
        alcohol_entry ==
            IF IsNumber(alcohol) /\ alcohol.n >= 14
            THEN << Blindspot("high", "Alcohol Impact on Recovery") >>
            ELSE IF IsNumber(alcohol) /\ alcohol.n >= 7
            THEN << Blindspot("medium", "Alcohol Affecting Recovery") >>
            ELSE <<>>
        \* 10. caffeine
        caffeine_lifestyle == Get(F("lifestyle", "caffeine_mg_per_day"), Num(0))
        caffeine_either == IF ~Truthy(caffeine_lifestyle)
                           THEN Get(F("nutrition", "caffeine_mg_per_day"), Num(0))
                           ELSE caffeine_lifestyle
        coffee_cups == Get(F("lifestyle", "coffee_cups_per_day"), Num(0))
        caffeine == IF ~Truthy(caffeine_either) /\ Truthy(coffee_cups)
                    THEN Num(coffee_cups.n * 95)
                    ELSE caffeine_either
        caffeine_entry ==
            IF IsNumber(caffeine) /\ caffeine.n >= 500
            THEN << Blindspot("high", "Caffeine Dependency") >>
            ELSE IF IsNumber(caffeine) /\ caffeine.n >= 400
            THEN << Blindspot("medium", "Caffeine Tolerance") >>
            ELSE <<>>
        found == recovery \o stress \o strength \o injury \o equipment \o schedule
                 \o masters \o underfueling \o alcohol_entry \o caffeine_entry
    IN  IF \/ SecNull("health_factors") \/ SecNull("training_history")
           \/ SecNull("injury_history")
        THEN [exc |-> "AttributeError", list |-> <<>>]
        ELSE IF concat_raises THEN [exc |-> "TypeError", list |-> <<>>]
        ELSE IF \/ SecNull("weekly_availability") \/ SecNull("nutrition")
                \/ SecNull("lifestyle")
        THEN [exc |-> "AttributeError", list |-> <<>>]
        ELSE [exc |-> "none",
              list |-> IF found = <<>> THEN << NoMajorBlindspots >> ELSE found]

\* int(n / d) for d > 0: the quotient truncated toward zero
Trunc(n, d) == IF n >= 0 THEN n \div d ELSE 0 - ((0 - n) \div d)

Max(a, b) == IF a >= b THEN a ELSE b

\* a or b or default, for values: the first truthy one
FirstTruthy(a, b, default) == IF Truthy(a) THEN a ELSE IF Truthy(b) THEN b ELSE default

\* buckets whose upper bounds are exclusive
ChoPerKgExclusiveBounds(cycling_hours) ==
    IF cycling_hours < 6 THEN 45
    ELSE IF cycling_hours < 10 THEN 55
    ELSE IF cycling_hours < 15 THEN 65
    ELSE 75

\* carbohydrate g/kg of the weekly-hours bucket, in tenths
ChoPerKg(cycling_hours) ==
    IF cycling_hours <= 6 THEN 45
    ELSE IF cycling_hours <= 10 THEN 55
    ELSE IF cycling_hours <= 15 THEN 65
    ELSE 75

\* protein g/kg, in tenths
ProPerKg(weight_goal, age) ==
    LET by_goal == IF IsStrIn(weight_goal, {"lose_slow", "lose_fast"}) THEN 20 ELSE 18
    IN  IF age >= 50 THEN Max(by_goal, 20) ELSE by_goal

\* the two sex offsets exchanged
Bmr4OffsetsExchanged(weight_kg, height_cm, age, sex) ==
    IF sex = "male"
    THEN 40 * weight_kg + 25 * height_cm - 20 * age - 644
    ELSE 40 * weight_kg + 25 * height_cm - 20 * age + 20

\* Mifflin-St Jeor, in quarters of a kcal (6.25 * height_cm is 25/4 * height_cm)
Bmr4(weight_kg, height_cm, age, sex) ==
    IF sex = "male"
    THEN 40 * weight_kg + 25 * height_cm - 20 * age + 20
    ELSE 40 * weight_kg + 25 * height_cm - 20 * age - 644

\* activity_multipliers.get(activity_level, 1.2), in twentieths
ActivityMultiplier20(activity_level) ==
    CASE activity_level = "sedentary"         -> 24
      [] activity_level = "moderately_active" -> 31
      [] OTHER                                -> 24

\* the weight-goal adjustment of daily_kcal, in kcal
GoalAdjustment(weight_goal) ==
    IF weight_goal = Str("lose_slow") THEN 0 - 300
    ELSE IF weight_goal = Str("lose_fast") THEN 0 - 500
    ELSE IF weight_goal = Str("gain") THEN 300
    ELSE 0

\* daily_kcal in eightieths of a kcal: bmr * multiplier, plus cycling_kcal
\* (ftp * 0.7 / 75) * 5 * (cycling_hours / 7) * 60 = 2/5 * ftp * cycling_hours,
\* plus the weight-goal adjustment
DailyKcal80(bmr4, activity_level, ftp, cycling_hours, weight_goal) ==
    bmr4 * ActivityMultiplier20(activity_level)
    + 32 * ftp * cycling_hours
    + 80 * GoalAdjustment(weight_goal)

\* the remainder without the minimum
FatGramsNoFloor(min_fat, remaining80) == Trunc(remaining80, 720)

\* fat_grams = max(min_fat, int(remaining_kcal / 9)), remaining_kcal in eightieths
FatGrams(min_fat, remaining80) == Max(min_fat, Trunc(remaining80, 720))

\* GuideGenerator._generate_nutrition_section: the exception raised, or "none"
\* with the locals of the calculation
_generate_nutrition_section(now) ==
    LET top_weight == GetNone(F("profile", "weight_kg"))
        weight     == FirstTruthy(top_weight, GetNone(F("fitness_markers", "weight_kg")), Num(70))
        top_height == GetNone(F("profile", "height_cm"))
        height     == FirstTruthy(top_height, GetNone(F("demographics", "height_cm")), Num(175))
        ftp_v      == FirstTruthy(GetNone(F("fitness_markers", "ftp_watts")),
                                  GetNone(F("profile", "ftp_watts")), Num(200))
        target     == GetNone(F("weekly_availability", "cycling_hours_target"))
        hours_v    == FirstTruthy(target,
                                  GetNone(F("training_history", "current_weekly_hours")),
                                  Num(10))
        calc_age   == _calculate_age(now)
        has_age    == calc_age # <<>> /\ calc_age[1] # 0
        age_v      == IF has_age THEN Num(calc_age[1])
                      ELSE FirstTruthy(GetNone(F("health_factors", "age")), Num(35), Num(35))
        sex_v      == Get(F("profile", "sex"), Str("male"))
        active_job == Get(F("lifestyle", "active_job"), Bool(FALSE))
        goal       == Get(F("lifestyle", "weight_goal"), Str("maintain"))
        \* a section that is null is reached only when the value before it is falsy
        raises ==
            \/ ~Truthy(top_weight) /\ SecNull("fitness_markers")
            \/ ~Truthy(top_height) /\ SecNull("demographics")
            \/ SecNull("fitness_markers")
            \/ SecNull("weekly_availability")
            \/ ~Truthy(target) /\ SecNull("training_history")
            \/ ~has_age /\ SecNull("health_factors")
            \/ sex_v.t # "str"
            \/ SecNull("lifestyle")
            \* the stats table renders weight_goal.replace('_', ' ')
            \/ goal.t # "str"
        weight_kg      == weight.n
        height_cm      == height.n
        ftp            == ftp_v.n
        cycling_hours  == hours_v.n
        age            == age_v.n
        sex            == Lower(sex_v.s)
        activity_level == IF Truthy(active_job) THEN "moderately_active" ELSE "sedentary"
        bmr4           == Bmr4(weight_kg, height_cm, age, sex)
        daily_kcal80   == DailyKcal80(bmr4, activity_level, ftp, cycling_hours, goal)
        cho_grams      == Trunc(weight_kg * ChoPerKg(cycling_hours), 10)
        pro_grams      == Trunc(weight_kg * ProPerKg(goal, age), 10)
        min_fat        == Trunc(weight_kg * 8, 10)
        remaining80    == daily_kcal80 - 80 * (cho_grams * 4) - 80 * (pro_grams * 4)
        fat_grams      == FatGrams(min_fat, remaining80)
    IN  IF raises THEN [exc |-> "AttributeError"]
        ELSE [exc |-> "none",
              weight_kg |-> weight_kg, height_cm |-> height_cm, ftp |-> ftp,
              cycling_hours |-> cycling_hours, age |-> age, sex |-> sex,
              activity_level |-> activity_level, weight_goal |-> goal,
              bmr4 |-> bmr4, daily_kcal80 |-> daily_kcal80,
              cho_grams |-> cho_grams, pro_grams |-> pro_grams, min_fat |-> min_fat,
              remaining80 |-> remaining80, fat_grams |-> fat_grams,
              total_kcal |-> cho_grams * 4 + pro_grams * 4 + fat_grams * 9]

\* ------------------------------------------- the race calendar of the guide
\* an event of a_events, b_events or c_events: its name and its 'date' value
Event(name, date) == [name |-> name, date |-> date]

\* the event with its priority, as appended to all_events
Prioritized(e, priority, synthesized) ==
    [name |-> e.name, date |-> e.date, priority |-> priority, synthesized |-> synthesized]

\* parse_date(d) of _generate_race_timeline, as an ordinal: a missing date is
\* '2099-12-31', whatever strptime raises gives datetime(2099, 12, 31)
parse_date(e) ==
    LET d == Get(e.date, Str("2099-12-31"))
    IN  IF d.t = "str" /\ ParseDate(d.s).ok
        THEN ParseDate(d.s).ord
        ELSE ParseDate("2099-12-31").ord

\* list.sort(key=parse_date): stable, ascending; each event is inserted after
\* the events whose key is not greater
RECURSIVE InsertByDate(_, _)
InsertByDate(sorted, e) ==
    IF sorted = <<>> THEN << e >>
    ELSE IF parse_date(sorted[Len(sorted)]) <= parse_date(e)
         THEN Append(sorted, e)
         ELSE Append(InsertByDate(SubSeq(sorted, 1, Len(sorted) - 1), e),
                     sorted[Len(sorted)])

RECURSIVE SortByDate(_)
SortByDate(events) ==
    IF events = <<>> THEN <<>>
    ELSE InsertByDate(SortByDate(SubSeq(events, 1, Len(events) - 1)),
                      events[Len(events)])

\* the events of a list that is present: None and [] have none
EventItems(list) == IF list.t = "list" THEN list.items ELSE <<>>

WithPriority(events, priority, synthesized) ==
    [ i \in 1..Len(events) |-> Prioritized(events[i], priority, synthesized) ]

\* GuideGenerator._generate_race_timeline up to the sort: the exception raised,
\* or "none" with all_events
_generate_race_timeline(rp) ==
    LET target_race == rp.target_race
        no_a_events == EventItems(rp.a_events) = <<>>
        name        == GetNone(target_race.name)
        synthesize  == no_a_events /\ target_race.t # "null" /\ Truthy(name)
        a_events    == IF synthesize
                       THEN << Prioritized(Event(name.s, Get(target_race.date, Str(""))),
                                           "A", TRUE) >>
                       ELSE WithPriority(EventItems(rp.a_events), "A", FALSE)
        merged      == a_events
                       \o WithPriority(EventItems(rp.b_events), "B", FALSE)
                       \o WithPriority(EventItems(rp.c_events), "C", FALSE)
    IN  IF no_a_events /\ target_race.t = "null"
        THEN [exc |-> "AttributeError", events |-> <<>>]
        ELSE IF \/ (~synthesize /\ rp.a_events.t = "null")
                \/ rp.b_events.t = "null"
                \/ rp.c_events.t = "null"
        THEN [exc |-> "TypeError", events |-> <<>>]
        ELSE [exc |-> "none", events |-> SortByDate(merged)]

\* ------------------------------------------------------- the planner runs
NoWeeks == [ i \in 1..Len(StrengthPhases) |-> {} ]

NoPlan ==
    /\ derived_plan_weeks = <<>>
    /\ plan_weeks = 0
    /\ phase_ranges = <<>>
    /\ week = 0
    /\ week_rows = <<>>
    /\ weeks_in_phase = NoWeeks
    /\ outcome = "pending"

InitPlan ==
    /\ derived_plan_weeks \in {<<>>} \cup { <<n>> : n \in (0 - MaxNegWeeks)..MaxPlanWeeks }
    /\ pc = "start"
    /\ plan_weeks = 0
    /\ phase_ranges = <<>>
    /\ week = 0
    /\ week_rows = <<>>
    /\ weeks_in_phase = NoWeeks
    /\ outcome = "pending"
    /\ NoProfile

\* _generate_atp_table up to the week loop: read plan_weeks, pick the template
AtpSelectTemplate ==
    /\ pc = "start"
    /\ plan_weeks' = DerivedPlanWeeks(derived_plan_weeks)
    /\ phase_ranges' = PhaseRanges(plan_weeks')
    /\ week' = 1
    /\ pc' = "rows"
    /\ UNCHANGED nonPlanVars
    /\ UNCHANGED <<derived_plan_weeks, week_rows, weeks_in_phase, outcome>>

\* one iteration of: for week in range(1, plan_weeks + 1)
AtpWeekRow ==
    /\ pc = "rows"
    /\ week <= plan_weeks
    /\ week_rows' = Append(week_rows, WeekRow(phase_ranges, week))
    /\ week' = week + 1
    /\ UNCHANGED nonPlanVars
    /\ UNCHANGED <<derived_plan_weeks, pc, plan_weeks, phase_ranges, weeks_in_phase, outcome>>

\* the loop is exhausted and the table is returned
AtpReturn ==
    /\ pc = "rows"
    /\ week > plan_weeks
    /\ pc' = "atp_done"
    /\ outcome' = "returned"
    /\ UNCHANGED nonPlanVars
    /\ UNCHANGED <<derived_plan_weeks, plan_weeks, phase_ranges, week, week_rows, weeks_in_phase>>

\* generate_athlete_guide: plan_weeks = derived['plan_weeks'] and the
\* weeks_in_phase loop over PHASE_DETAILS
GuidePhaseWeeks ==
    /\ pc = "atp_done"
    /\ derived_plan_weeks # <<>>
    /\ weeks_in_phase' = WeeksInPhase(derived_plan_weeks[1])
    /\ pc' = "guide_done"
    /\ UNCHANGED nonPlanVars
    /\ UNCHANGED <<derived_plan_weeks, plan_weeks, phase_ranges, week, week_rows, outcome>>

\* derived['plan_weeks'] on a derived record without the key
GuideKeyError ==
    /\ pc = "atp_done"
    /\ derived_plan_weeks = <<>>
    /\ outcome' = "KeyError"
    /\ pc' = "guide_done"
    /\ UNCHANGED nonPlanVars
    /\ UNCHANGED <<derived_plan_weeks, plan_weeks, phase_ranges, week, week_rows, weeks_in_phase>>

NextPlan ==
    \/ AtpSelectTemplate
    \/ AtpWeekRow
    \/ AtpReturn
    \/ GuidePhaseWeeks
    \/ GuideKeyError

SpecPlan == InitPlan /\ [][NextPlan]_vars

\* ------------------------------------------------------ planner properties
AtpFinished == pc \in {"atp_done", "guide_done"}

RangeWeeks(r) == r.start .. r.end

RangesOf(w) == { i \in 1..Len(phase_ranges) : w \in RangeWeeks(phase_ranges[i]) }

\* C1: for every plan_weeks >= 1 the table has exactly plan_weeks rows, every
\* week 1..plan_weeks lies in exactly one phase range, each range starts right
\* after the previous one ends, and the ranges together cover exactly
\* 1..plan_weeks.
C1_RangesPartitionPlan ==
    (AtpFinished /\ plan_weeks >= 1) =>
        /\ Len(week_rows) = plan_weeks
        /\ \A w \in 1..plan_weeks : Cardinality(RangesOf(w)) = 1
        /\ \A i \in 1..(Len(phase_ranges) - 1) :
               phase_ranges[i + 1].start = phase_ranges[i].end + 1
        /\ UNION { RangeWeeks(phase_ranges[i]) : i \in 1..Len(phase_ranges) }
               = 1..plan_weeks

\* C2: for every plan_weeks >= 1 no phase range is degenerate (start > end) and
\* every phase has at least one week of the plan assigned to it.
C2_NoEmptyPhase ==
    (AtpFinished /\ plan_weeks >= 1) =>
        \A i \in 1..Len(phase_ranges) :
            /\ phase_ranges[i].start <= phase_ranges[i].end
            /\ \E k \in 1..Len(week_rows) :
                   week_rows[k].phase_name = phase_ranges[i].name

\* C3: in every row is_recovery is true iff week mod 4 = 0 and the phase is
\* not Taper; the volume label is Recovery exactly for recovery weeks and
\* otherwise the entry week mod 4 of Low, Medium, High, Peak.
C3_RecoveryAndVolume ==
    \A k \in 1..Len(week_rows) :
        LET r == week_rows[k]
        IN  /\ r.week = k
            /\ r.is_recovery <=> (r.week % 4 = 0 /\ r.phase_name # "Taper")
            /\ (r.volume_label = "Recovery") <=> r.is_recovery
            /\ ~r.is_recovery =>
                   /\ (r.week % 4) + 1 \in 1..Len(VolumeLabels)
                   /\ r.volume_label = VolumeLabels[(r.week % 4) + 1]

\* a finished table with a recovery week and a Taper week divisible by 4
C3_Witness ==
    /\ AtpFinished
    /\ \E k \in 1..Len(week_rows) : week_rows[k].is_recovery
    /\ \E k \in 1..Len(week_rows) :
           /\ week_rows[k].phase_name = "Taper"
           /\ week_rows[k].week % 4 = 0
           /\ week_rows[k].volume_label = "Low"

\* C4: plan_weeks >= 20 selects Base 1-4, Build 5-12, Peak 13-18, Taper
\* 19..plan_weeks; 12 <= plan_weeks < 20 selects Base 1-3, Build 4-7, Peak
\* 8-10, Taper 11..plan_weeks; for plan_weeks = 12 the Taper is 11-12 and
\* week 8 is a Peak week flagged as recovery.
C4_TemplateByLength ==
    (pc # "start") =>
        /\ plan_weeks >= 20 =>
               phase_ranges = << Range(1, 4, "Base"), Range(5, 12, "Build"),
                                 Range(13, 18, "Peak"), Range(19, plan_weeks, "Taper") >>
        /\ (plan_weeks >= 12 /\ plan_weeks < 20) =>
               phase_ranges = << Range(1, 3, "Base"), Range(4, 7, "Build"),
                                 Range(8, 10, "Peak"), Range(11, plan_weeks, "Taper") >>
        /\ plan_weeks = 12 =>
               /\ phase_ranges[4] = Range(11, 12, "Taper")
               /\ Len(week_rows) >= 8 =>
                      /\ week_rows[8].phase_name = "Peak"
                      /\ week_rows[8].is_recovery

\* the 12-week table is finished, and so is a table of 20 weeks or more
C4_Witness ==
    /\ AtpFinished
    /\ plan_weeks = 12
    /\ Len(week_rows) = 12
    /\ week_rows[8].volume_label = "Recovery"

StrengthIndex(s) == CHOOSE i \in 1..Len(StrengthPhases) : StrengthPhases[i] = s

\* C5: for every plan length and week, the strength phase get_phase_for_week
\* gives the week is the one shown next to the cycling phase the ATP table
\* gives the same week.
C5_StrengthParallelsCycling ==
    (pc = "guide_done" /\ outcome = "returned") =>
        \A k \in 1..Len(week_rows) :
            week_rows[k].week \in
                weeks_in_phase[StrengthIndex(StrengthOf(plan_weeks, week_rows[k].phase_name))]

\* C6: a plan_weeks <= 0 ends the planner with a ConfigurationError and no
\* schedule is returned.
C6_NonPositiveRejected ==
    (AtpFinished /\ plan_weeks <= 0) => outcome = "ConfigurationError"

\* the weeks the finished ATP table gives a phase
WeeksOfPhase(name) ==
    { week_rows[k].week : k \in { j \in 1..Len(week_rows) : week_rows[j].phase_name = name } }

\* C28: for every plan length, the week range the phase-progression section
\* displays for each of Base, Build, Peak and Taper equals the set of weeks
\* the ATP table assigns to that phase (the Taper range shown ends at
\* plan_weeks).
C28_ProgressionMatchesAtp ==
    (AtpFinished /\ plan_weeks >= 1) =>
        \A i \in 1..Len(Phases(plan_weeks)) :
            LET card == Phases(plan_weeks)[i]
            IN  card.first .. card.last = WeeksOfPhase(card.cycling)

\* ------------------------------------------------ risk level of a profile
RiskKeys == { k \in AllKeys : k \in
    { <<"health_factors", "stress_level">>, <<"health_factors", "sleep_quality">>,
      <<"movement_limitations", "deep_squat">>, <<"movement_limitations", "hip_hinge">>,
      <<"schedule_constraints", "travel_frequency">>,
      <<"lifestyle", "alcohol_drinks_per_week">>, <<"nutrition", "fuels_during_rides">> } }

\* sequences over a set, up to a length
SeqsUpTo(set, n) == UNION { [ 1..m -> set ] : m \in 0..n }

InitRisk ==
    /\ NoPlan
    /\ pc = "risk_call"
    /\ InitProfile(RiskKeys, MaxFieldsSet)
    /\ today = Today1
    /\ NoDash
    /\ NoGuide
    /\ cur_injuries \in
           { [t |-> "absent", items |-> <<>>], [t |-> "null", items |-> <<>>] }
           \cup { [t |-> "list", items |-> q] :
                      q \in SeqsUpTo({"none", "minor", "moderate"}, MaxInjuries - 1) }
    /\ risk_history = <<>>

\* generate_dashboard line 299: the risk level of the profile as it stands
RiskCall ==
    /\ pc = "risk_call"
    /\ risk_history' = Append(risk_history, get_risk_level(cur_injuries))
    /\ pc' = "risk_idle"
    /\ UNCHANGED <<planData, profVars, dashVars, guideVars, previous_run, intakeVars>>

\* the profile gains one more current injury of moderate or significant severity
AddHighInjury ==
    /\ pc = "risk_idle"
    /\ Len(Items(cur_injuries)) < MaxInjuries
    /\ \E sev \in {"moderate", "significant"} :
           cur_injuries' = [t |-> "list", items |-> Append(Items(cur_injuries), sev)]
    /\ pc' = "risk_call"
    /\ UNCHANGED <<planData, fld, nullsec, today, risk_history, dashVars, guideVars, previous_run, intakeVars>>

NextRisk ==
    \/ RiskCall
    \/ AddHighInjury

SpecRisk == InitRisk /\ [][NextRisk]_vars

LastRisk == risk_history[Len(risk_history)]

HighInjuryPresent ==
    \E i \in 1..Len(Items(cur_injuries)) :
        Items(cur_injuries)[i] = "moderate" \/ Items(cur_injuries)[i] = "significant"

IsString(sec, name, str) == F(sec, name) = Str(str)

ModerateTriggerPresent ==
    \/ Len(Items(cur_injuries)) > 0
    \/ IsString("health_factors", "stress_level", "high")
    \/ IsString("health_factors", "stress_level", "very_high")
    \/ IsString("health_factors", "sleep_quality", "poor")
    \/ \E name \in {"deep_squat", "hip_hinge"} :
           \/ IsString("movement_limitations", name, "limited")
           \/ IsString("movement_limitations", name, "significantly_limited")
           \/ IsString("movement_limitations", name, "painful")
    \/ IsString("schedule_constraints", "travel_frequency", "frequent")
    \/ ( F("lifestyle", "alcohol_drinks_per_week").t = "num"
         /\ F("lifestyle", "alcohol_drinks_per_week").n > 10 )
    \/ IsString("nutrition", "fuels_during_rides", "rarely")

NullInput == nullsec # {} \/ \E k \in RiskKeys : fld[k] = Null

\* C7: whenever get_risk_level returns, the level is HIGH iff a current injury
\* is moderate or significant, otherwise MODERATE iff one of the seven
\* moderate triggers holds, otherwise LOW; and it returns a level for every
\* input without a null section or field.
C7_RiskDecisionTable ==
    (pc = "risk_idle") =>
        /\ LastRisk \in Levels \cup Exceptions
        /\ LastRisk \in Levels =>
               LastRisk = IF HighInjuryPresent THEN "HIGH"
                          ELSE IF ModerateTriggerPresent THEN "MODERATE"
                          ELSE "LOW"
        /\ ~NullInput => LastRisk \in Levels

\* MODERATE is returned for ten drinks and a limitation, LOW stays possible
C7_Witness ==
    /\ pc = "risk_idle"
    /\ LastRisk = "MODERATE"
    /\ Items(cur_injuries) = <<>>
    /\ F("lifestyle", "alcohol_drinks_per_week") = Num(10)
    /\ F("movement_limitations", "deep_squat") = Str("painful")

Rank(level) == CASE level = "LOW" -> 0 [] level = "MODERATE" -> 1 [] level = "HIGH" -> 2

\* C8: appending a current injury of severity moderate or significant never
\* lowers the level: each level returned is at least the level returned
\* before the injury was added.
C8_RiskMonotonic ==
    \A i \in 1..(Len(risk_history) - 1) :
        risk_history[i] \in Levels =>
            /\ risk_history[i + 1] \in Levels
            /\ Rank(risk_history[i]) <= Rank(risk_history[i + 1])

\* a profile already HIGH gets one more such injury and is assessed again
C8_Witness ==
    /\ Len(risk_history) >= 2
    /\ risk_history[1] = "HIGH"
    /\ risk_history[2] = "HIGH"
    /\ Len(Items(cur_injuries)) >= 2

\* ------------------------------------------- the blindspots of a profile
BlindKeys == { k \in AllKeys : k \in
    { <<"health_factors", "sleep_quality">>, <<"health_factors", "sleep_hours_avg">>,
      <<"health_factors", "stress_level">>, <<"training_history", "strength_background">>,
      <<"injury_history", "past_injuries">>, <<"derived", "equipment_tier">>,
      <<"weekly_availability", "total_hours_available">>,
      <<"weekly_availability", "cycling_hours_target">>,
      <<"profile", "birthday">>, <<"profile", "weight_loss_goal">>,
      <<"nutrition", "daily_carbs_g_per_kg">>, <<"nutrition", "fuels_during_rides">>,
      <<"nutrition", "eating_disorder_history">>,
      <<"nutrition", "alcohol_drinks_per_week">>, <<"nutrition", "caffeine_mg_per_day">>,
      <<"lifestyle", "alcohol_drinks_per_week">>, <<"lifestyle", "caffeine_mg_per_day">>,
      <<"lifestyle", "coffee_cups_per_day">>, <<"lifestyle", "weight_goal">> } }

InitBlind ==
    /\ NoPlan
    /\ pc = "blindspots_call"
    /\ InitProfile(BlindKeys, MaxBlindFields)
    /\ cur_injuries \in { [t |-> "absent", items |-> <<>>], [t |-> "null", items |-> <<>>],
                          [t |-> "list", items |-> <<>>],
                          [t |-> "list", items |-> <<"minor">>] }
    /\ today \in Todays
    /\ risk_history = <<>>
    /\ NoDash
    /\ NoGuide

\* _generate_blindspots is run on the profile
GenerateBlindspots ==
    /\ pc = "blindspots_call"
    /\ blindspots' = _generate_blindspots(cur_injuries, today)
    /\ pc' = "blindspots_done"
    /\ UNCHANGED <<planData, profVars, risk_history, dashVars, nutrition, race_profile,
                   all_events, previous_run, intakeVars>>

NextBlind ==
    \/ GenerateBlindspots

SpecBlind == InitBlind /\ [][NextBlind]_vars

\* no field set, no section null, no current injury
EmptyProfile ==
    /\ \A k \in AllKeys : fld[k] = Absent
    /\ nullsec = {}
    /\ cur_injuries.t = "absent"

\* C9: the list _generate_blindspots builds is never empty, and for the empty
\* profile it is exactly the one entry 'No Major Blindspots Identified'.
C9_BlindspotsNeverEmpty ==
    (pc = "blindspots_done" /\ blindspots.exc = "none") =>
        /\ Len(blindspots.list) >= 1
        /\ EmptyProfile => blindspots.list = << NoMajorBlindspots >>

\* the five underfueling signals of a profile; a weight-loss goal is active
\* when weight_loss_goal is set or the weight goal of the nutrition targets
\* is lose_slow or lose_fast
UnderfuelingSignals ==
    LET carbs   == F("nutrition", "daily_carbs_g_per_kg")
        fueling == F("nutrition", "fuels_during_rides")
        hours   == F("weekly_availability", "cycling_hours_target")
        holds(signal) ==
            CASE signal = "low daily carbs" ->
                     carbs.t = "num" /\ carbs.n > 0 /\ carbs.n < 3
              [] signal = "rarely fuels" ->
                     IsStrIn(fueling, {"never", "rarely"})
              [] signal = "disordered eating" ->
                     Truthy(F("nutrition", "eating_disorder_history"))
              [] signal = "weight loss goal" ->
                     \/ Truthy(F("profile", "weight_loss_goal"))
                     \/ IsStrIn(F("lifestyle", "weight_goal"), {"lose_slow", "lose_fast"})
              [] signal = "volume without fueling" ->
                     hours.t = "num" /\ hours.n > 10 /\ ~Truthy(fueling)
    IN  { signal \in { "low daily carbs", "rarely fuels", "disordered eating",
                       "weight loss goal", "volume without fueling" } : holds(signal) }

UnderfuelingEntries ==
    { i \in 1..Len(blindspots.list) : blindspots.list[i].title = "Underfueling Risk" }

\* C15: the Underfueling Risk blindspot is emitted iff at least one of the five
\* signals holds, and its severity is high iff disordered-eating history is
\* present or at least two signals co-occur, otherwise medium.
C15_UnderfuelingComposite ==
    (pc = "blindspots_done" /\ blindspots.exc = "none") =>
        /\ (UnderfuelingEntries # {}) <=> (UnderfuelingSignals # {})
        /\ \A i \in UnderfuelingEntries :
               blindspots.list[i].severity =
                   IF \/ "disordered eating" \in UnderfuelingSignals
                      \/ Cardinality(UnderfuelingSignals) >= 2
                   THEN "high" ELSE "medium"

\* -------------------------------------------- the nutrition targets
\* the fields _generate_nutrition_section reads
NutritionKeys == { k \in AllKeys : k \in
    { <<"profile", "weight_kg">>, <<"fitness_markers", "weight_kg">>,
      <<"profile", "height_cm">>, <<"demographics", "height_cm">>,
      <<"fitness_markers", "ftp_watts">>, <<"profile", "ftp_watts">>,
      <<"weekly_availability", "cycling_hours_target">>,
      <<"training_history", "current_weekly_hours">>,
      <<"profile", "birthday">>, <<"health_factors", "age">>, <<"profile", "sex">>,
      <<"lifestyle", "active_job">>, <<"lifestyle", "weight_goal">> } }

\* the questionnaire answers tried in every combination
NutritionAnswers(k) ==
    CASE k = <<"profile", "weight_kg">> ->
             { Absent, Num(55), Num(95) }
      [] k = <<"weekly_availability", "cycling_hours_target">> ->
             { Absent, Num(6), Num(7), Num(11), Num(16) }
      [] k = <<"lifestyle", "weight_goal">> ->
             { Absent, Str("lose_slow"), Str("lose_fast"), Str("gain") }
      [] k = <<"health_factors", "age">> ->
             { Absent, Num(50), Num(60) }
      [] k = <<"lifestyle", "active_job">> ->
             { Absent, Bool(TRUE) }
      [] k = <<"profile", "sex">> ->
             { Absent, Str("female") }
      [] k = <<"fitness_markers", "ftp_watts">> ->
             { Absent, Num(150) }
      [] OTHER -> { Absent }

\* the other ways a field is filled in, and the sections that are null
NutritionVariants ==
    { [sec |-> "profile", name |-> "weight_kg", v |-> Null],
      [sec |-> "profile", name |-> "weight_kg", v |-> Num(0)],
      [sec |-> "profile", name |-> "weight_kg", v |-> Num(70)],
      [sec |-> "fitness_markers", name |-> "weight_kg", v |-> Num(60)],
      [sec |-> "profile", name |-> "height_cm", v |-> Num(160)],
      [sec |-> "profile", name |-> "height_cm", v |-> Num(190)],
      [sec |-> "demographics", name |-> "height_cm", v |-> Num(170)],
      [sec |-> "fitness_markers", name |-> "ftp_watts", v |-> Num(0)],
      [sec |-> "fitness_markers", name |-> "ftp_watts", v |-> Null],
      [sec |-> "fitness_markers", name |-> "ftp_watts", v |-> Num(300)],
      [sec |-> "profile", name |-> "ftp_watts", v |-> Num(250)],
      [sec |-> "weekly_availability", name |-> "cycling_hours_target", v |-> Null],
      [sec |-> "weekly_availability", name |-> "cycling_hours_target", v |-> Num(10)],
      [sec |-> "weekly_availability", name |-> "cycling_hours_target", v |-> Num(15)],
      [sec |-> "training_history", name |-> "current_weekly_hours", v |-> Num(0)],
      [sec |-> "training_history", name |-> "current_weekly_hours", v |-> Num(6)],
      [sec |-> "training_history", name |-> "current_weekly_hours", v |-> Num(12)],
      [sec |-> "profile", name |-> "birthday", v |-> Str("1981-11-01")],
      [sec |-> "profile", name |-> "birthday", v |-> Str("1976-11-01")],
      [sec |-> "profile", name |-> "birthday", v |-> Str("n/a")],
      [sec |-> "health_factors", name |-> "age", v |-> Null],
      [sec |-> "health_factors", name |-> "age", v |-> Num(35)],
      [sec |-> "health_factors", name |-> "age", v |-> Num(49)],
      [sec |-> "profile", name |-> "sex", v |-> Str("male")],
      [sec |-> "profile", name |-> "sex", v |-> Str("Male")],
      [sec |-> "profile", name |-> "sex", v |-> Null],
      [sec |-> "lifestyle", name |-> "weight_goal", v |-> Str("maintain")],
      [sec |-> "lifestyle", name |-> "weight_goal", v |-> Null],
      [sec |-> "lifestyle", name |-> "active_job", v |-> Bool(FALSE)] }
    \cup { [sec |-> sec, name |-> "", v |-> Null] :
               sec \in { k[1] : k \in NutritionKeys } \cap ProfileSections }

\* the subsets of a set that have at most n elements
RECURSIVE SubsetsUpTo(_, _)
SubsetsUpTo(S, n) ==
    IF n = 0 THEN { {} }
    ELSE LET smaller == SubsetsUpTo(S, n - 1)
         IN  smaller \cup { T \cup {x} : T \in smaller, x \in S }

\* the value of a field: its answer, unless a variant fills the field in
\* another way or makes its section null
NutritionField(answers, variants, k) ==
    IF \E x \in variants : x.sec = k[1] /\ x.name = ""
    THEN Absent
    ELSE IF \E x \in variants : x.sec = k[1] /\ x.name = k[2]
    THEN (CHOOSE x \in variants : x.sec = k[1] /\ x.name = k[2]).v
    ELSE answers[k]

InitNutrition ==
    /\ NoPlan
    /\ pc = "nutrition_call"
    /\ \E variants \in { V \in SubsetsUpTo(NutritionVariants, MaxNutritionVariants) :
                             \A x, y \in V :
                                 (x.sec = y.sec /\ x.name = y.name) => x = y } :
       \E weight \in NutritionAnswers(<<"profile", "weight_kg">>),
          hours  \in NutritionAnswers(<<"weekly_availability", "cycling_hours_target">>),
          goal   \in NutritionAnswers(<<"lifestyle", "weight_goal">>),
          age    \in NutritionAnswers(<<"health_factors", "age">>),
          active \in NutritionAnswers(<<"lifestyle", "active_job">>),
          sex    \in NutritionAnswers(<<"profile", "sex">>),
          ftp    \in NutritionAnswers(<<"fitness_markers", "ftp_watts">>) :
           LET answers == [ k \in NutritionKeys |->
                   CASE k = <<"profile", "weight_kg">>                       -> weight
                     [] k = <<"weekly_availability", "cycling_hours_target">> -> hours
                     [] k = <<"lifestyle", "weight_goal">>                    -> goal
                     [] k = <<"health_factors", "age">>                       -> age
                     [] k = <<"lifestyle", "active_job">>                     -> active
                     [] k = <<"profile", "sex">>                              -> sex
                     [] k = <<"fitness_markers", "ftp_watts">>                -> ftp
                     [] OTHER                                                 -> Absent ]
           IN
           /\ fld = [ k \in AllKeys |->
                        IF k \in NutritionKeys
                        THEN NutritionField(answers, variants, k) ELSE Absent ]
           /\ nullsec = { x.sec : x \in { y \in variants : y.name = "" } }
    /\ cur_injuries = [t |-> "absent", items |-> <<>>]
    /\ today = Today1
    /\ risk_history = <<>>
    /\ NoDash
    /\ NoGuide

\* _generate_nutrition_section is run on the profile
GenerateNutritionSection ==
    /\ pc = "nutrition_call"
    /\ nutrition' = _generate_nutrition_section(today)
    /\ pc' = "nutrition_done"
    /\ UNCHANGED <<planData, profVars, risk_history, dashVars, blindspots, race_profile,
                   all_events, previous_run, intakeVars>>

NextNutrition ==
    \/ GenerateNutritionSection

SpecNutrition == InitNutrition /\ [][NextNutrition]_vars

NutritionReturned == pc = "nutrition_done" /\ nutrition.exc = "none"

\* C11: the macro calories carbs*4 + protein*4 + fat*9 are within 5 kcal of
\* the target daily calories and do not exceed the target by a whole kcal.
C11_MacroCaloriesMatchTarget ==
    NutritionReturned =>
        LET macro80 == 80 * (nutrition.cho_grams * 4 + nutrition.pro_grams * 4
                             + nutrition.fat_grams * 9)
        IN  /\ macro80 - nutrition.daily_kcal80 <= 5 * 80
            /\ nutrition.daily_kcal80 - macro80 <= 5 * 80
            /\ macro80 - nutrition.daily_kcal80 < 80

\* the spec's example athlete: 70 kg, age 35, male, no height given
ExampleAthlete ==
    /\ NutritionReturned
    /\ nutrition.weight_kg = 70
    /\ nutrition.age = 35
    /\ nutrition.sex = "male"
    /\ F("profile", "height_cm") = Absent
    /\ F("demographics", "height_cm") = Absent

\* BMR is 10*weight + 6.25*height - 5*age, plus 5 for sex 'male' and minus 161
\* otherwise (in quarters of a kcal)
BmrIsMifflinStJeor ==
    NutritionReturned =>
        nutrition.bmr4 = 40 * nutrition.weight_kg + 25 * nutrition.height_cm
                         - 20 * nutrition.age
                         + (IF nutrition.sex = "male" THEN 20 ELSE 0 - 644)

\* C12 as stated: BMR is Mifflin-St Jeor with +5 for 'male' and -161 otherwise,
\* and the example athlete's BMR is 1673 kcal to within one kcal.
C12_BmrExample1673 ==
    /\ BmrIsMifflinStJeor
    /\ ExampleAthlete =>
           /\ nutrition.bmr4 >= 4 * 1673 - 4
           /\ nutrition.bmr4 <= 4 * 1673 + 4

\* C12 as amended: BMR is Mifflin-St Jeor with +5 for 'male' and -161 otherwise,
\* the 175 cm default applies when no height is given, and the example
\* athlete's BMR is 1623.75 kcal.
C12_BmrMifflinStJeor ==
    /\ BmrIsMifflinStJeor
    /\ ExampleAthlete =>
           /\ nutrition.height_cm = 175
           /\ nutrition.bmr4 = 4 * 1623 + 3

\* the example athlete's targets are calculated with the default height
C12_Witness ==
    /\ ExampleAthlete
    /\ nutrition.bmr4 = 6495

C14_FatFloor ==
    NutritionReturned =>
        LET min_g   == (nutrition.weight_kg * 8) \div 10
            rem80   == nutrition.daily_kcal80 - 80 * 4 * nutrition.cho_grams
                       - 80 * 4 * nutrition.pro_grams
            by_rem  == IF rem80 >= 0 THEN rem80 \div 720 ELSE 0 - ((0 - rem80) \div 720)
        IN  /\ nutrition.fat_grams >= min_g
            /\ by_rem >= min_g => nutrition.fat_grams = by_rem
            /\ by_rem < min_g => nutrition.fat_grams = min_g

\* carbs and protein alone exceed the target and the floor decides
C14_Witness ==
    /\ NutritionReturned
    /\ nutrition.remaining80 < 0
    /\ nutrition.fat_grams = (nutrition.weight_kg * 8) \div 10
    /\ nutrition.fat_grams > 0

\* ----------------------------------------- the classifiers of a dashboard
DashKeys == { k \in AllKeys : k \in
    { <<"health_factors", "age">>, <<"health_factors", "sleep_quality">>,
      <<"health_factors", "sleep_hours_avg">>, <<"health_factors", "stress_level">>,
      <<"training_history", "years_cycling">>, <<"training_history", "years_structured">>,
      <<"training_history", "current_weekly_hours">>,
      <<"training_history", "highest_weekly_hours">>,
      <<"fitness_markers", "w_kg">>, <<"fitness_markers", "ftp_watts">>,
      <<"fitness_markers", "ftp_date">>, <<"recent_training", "last_12_weeks">>,
      <<"weekly_availability", "cycling_hours_target">>, <<"target_race", "goal_type">>,
      <<"methodology_preferences", "preferred_approach">>,
      <<"lifestyle", "alcohol_drinks_per_week">>, <<"nutrition", "fuels_during_rides">>,
      <<"schedule_constraints", "travel_frequency">>,
      <<"movement_limitations", "deep_squat">>,
      <<"derived", "tier">>, <<"derived", "exercise_exclusions">> } }

ExcOf(result) == IF result \in Exceptions THEN result ELSE "none"

InitDash ==
    /\ NoPlan
    /\ pc = "get_risk_level"
    /\ InitProfile(DashKeys, MaxDashFields)
    /\ cur_injuries \in { [t |-> "absent", items |-> <<>>],
                          [t |-> "list", items |-> <<"minor">>] }
    /\ today \in Todays
    /\ risk_history = <<>>
    /\ NoDash
    /\ NoGuide

\* the calls of generate_dashboard lines 299-318, each made on the profile
CallGetRiskLevel ==
    /\ pc = "get_risk_level"
    /\ risk_level' = get_risk_level(cur_injuries)
    /\ raised' = [raised EXCEPT !["get_risk_level"] = ExcOf(risk_level')]
    /\ pc' = "classify_rider_ability"
    /\ UNCHANGED <<planData, profVars, risk_history, rider_ability, tier_reasoning,
                   training_system, limiter, coaching_priorities, guideVars, previous_run, intakeVars>>

CallClassifyRiderAbility ==
    /\ pc = "classify_rider_ability"
    /\ rider_ability' = classify_rider_ability
    /\ raised' = [raised EXCEPT !["classify_rider_ability"] = ExcOf(rider_ability')]
    /\ pc' = "get_tier_reasoning"
    /\ UNCHANGED <<planData, profVars, risk_history, risk_level, tier_reasoning,
                   training_system, limiter, coaching_priorities, guideVars, previous_run, intakeVars>>

CallGetTierReasoning ==
    /\ pc = "get_tier_reasoning"
    /\ tier_reasoning' = get_tier_reasoning.val
    /\ raised' = [raised EXCEPT !["get_tier_reasoning"] = get_tier_reasoning.exc]
    /\ pc' = "recommend_training_system"
    /\ UNCHANGED <<planData, profVars, risk_history, risk_level, rider_ability,
                   training_system, limiter, coaching_priorities, guideVars, previous_run, intakeVars>>

CallRecommendTrainingSystem ==
    /\ pc = "recommend_training_system"
    /\ training_system' = recommend_training_system
    /\ raised' = [raised EXCEPT !["recommend_training_system"] = ExcOf(training_system')]
    /\ pc' = "identify_limiter"
    /\ UNCHANGED <<planData, profVars, risk_history, risk_level, rider_ability,
                   tier_reasoning, limiter, coaching_priorities, guideVars, previous_run, intakeVars>>

CallIdentifyLimiter ==
    /\ pc = "identify_limiter"
    /\ limiter' = identify_limiter
    /\ raised' = [raised EXCEPT !["identify_limiter"] = ExcOf(limiter')]
    /\ pc' = "generate_coaching_priorities"
    /\ UNCHANGED <<planData, profVars, risk_history, risk_level, rider_ability,
                   tier_reasoning, training_system, coaching_priorities, guideVars, previous_run, intakeVars>>

CallGenerateCoachingPriorities ==
    /\ pc = "generate_coaching_priorities"
    /\ coaching_priorities' = generate_coaching_priorities(today).val
    /\ raised' = [raised EXCEPT !["generate_coaching_priorities"] =
                                    generate_coaching_priorities(today).exc]
    /\ pc' = "dash_done"
    /\ UNCHANGED <<planData, profVars, risk_history, risk_level, rider_ability,
                   tier_reasoning, training_system, limiter, guideVars, previous_run, intakeVars>>

NextDash ==
    \/ CallGetRiskLevel
    \/ CallClassifyRiderAbility
    \/ CallGetTierReasoning
    \/ CallRecommendTrainingSystem
    \/ CallIdentifyLimiter
    \/ CallGenerateCoachingPriorities

SpecDash == InitDash /\ [][NextDash]_vars

\* C10: none of the six classifiers raises, whatever section or field of the
\* profile is absent or null.
C10_ClassifiersTotal ==
    \A f \in DOMAIN raised : raised[f] = "none"

\* ------------------------------------------------ the coaching priorities
\* the answers generate_coaching_priorities reads, tried in every combination
PriorityAnswers(k) ==
    CASE k = <<"fitness_markers", "ftp_date">> ->
             { Absent, Str("2026-08-01"), Str("2026-09-06"), Str("last summer") }
      [] k = <<"fitness_markers", "ftp_watts">> ->
             { Absent, Num(0), Num(220) }
      [] k = <<"nutrition", "fuels_during_rides">> ->
             { Absent, Str("rarely"), Str("always") }
      [] k = <<"lifestyle", "alcohol_drinks_per_week">> ->
             { Absent, Null, Num(7), Num(8) }
      [] k = <<"health_factors", "sleep_quality">> ->
             { Absent, Str("poor"), Str("good") }
      [] k = <<"health_factors", "sleep_hours_avg">> ->
             { Absent, Num(6), Num(7) }
      [] k = <<"derived", "exercise_exclusions">> ->
             { Absent, List(0), List(2) }
      [] OTHER -> { Absent }

InitPriorities ==
    /\ NoPlan
    /\ pc = "generate_coaching_priorities"
    /\ \E ftp_date    \in PriorityAnswers(<<"fitness_markers", "ftp_date">>),
          ftp_watts   \in PriorityAnswers(<<"fitness_markers", "ftp_watts">>),
          fueling     \in PriorityAnswers(<<"nutrition", "fuels_during_rides">>),
          alcohol     \in PriorityAnswers(<<"lifestyle", "alcohol_drinks_per_week">>),
          quality     \in PriorityAnswers(<<"health_factors", "sleep_quality">>),
          sleep_hours \in PriorityAnswers(<<"health_factors", "sleep_hours_avg">>),
          exclusions  \in PriorityAnswers(<<"derived", "exercise_exclusions">>) :
           fld = [ k \in AllKeys |->
                   CASE k = <<"fitness_markers", "ftp_date">>            -> ftp_date
                     [] k = <<"fitness_markers", "ftp_watts">>           -> ftp_watts
                     [] k = <<"nutrition", "fuels_during_rides">>        -> fueling
                     [] k = <<"lifestyle", "alcohol_drinks_per_week">>   -> alcohol
                     [] k = <<"health_factors", "sleep_quality">>        -> quality
                     [] k = <<"health_factors", "sleep_hours_avg">>      -> sleep_hours
                     [] k = <<"derived", "exercise_exclusions">>         -> exclusions
                     [] OTHER                                            -> Absent ]
    /\ nullsec = {}
    /\ cur_injuries = [t |-> "absent", items |-> <<>>]
    /\ today \in Todays
    /\ risk_history = <<>>
    /\ NoDash
    /\ NoGuide

NextPriorities ==
    \/ CallGenerateCoachingPriorities

SpecPriorities == InitPriorities /\ [][NextPriorities]_vars

PrioritiesReturned ==
    pc = "dash_done" /\ raised["generate_coaching_priorities"] = "none"

\* the category a priority belongs to
PriorityCategory(priority) ==
    CASE priority \in {"Retest FTP", "Establish FTP baseline"} -> "ftp"
      [] priority = "Establish fueling protocol"    -> "fueling"
      [] priority = "Build long ride duration"      -> "long ride"
      [] priority = "Address alcohol impact"        -> "alcohol"
      [] priority = "Optimize sleep"                -> "sleep"
      [] priority = "Verify exercise substitutions" -> "exclusions"

\* whether a category triggers for the profile
PriorityTriggers(category) ==
    LET ftp_date == F("fitness_markers", "ftp_date")
        stale    == /\ ftp_date.t = "str"
                    /\ ParseDate(ftp_date.s).ok
                    /\ (today.ord - ParseDate(ftp_date.s).ord) \div 7 > 8
        no_ftp   == F("fitness_markers", "ftp_watts") \in { Absent, Null, Num(0) }
        alcohol  == F("lifestyle", "alcohol_drinks_per_week")
        hours    == F("health_factors", "sleep_hours_avg")
    IN  CASE category = "ftp"        -> stale \/ no_ftp
          [] category = "fueling"    -> F("nutrition", "fuels_during_rides") = Str("rarely")
          [] category = "long ride"  -> no_ftp
          [] category = "alcohol"    -> alcohol.t = "num" /\ alcohol.n > 7
          [] category = "sleep"      ->
                 \/ F("health_factors", "sleep_quality") = Str("poor")
                 \/ (hours.t = "num" /\ hours.n > 0 /\ hours.n < 7)
          [] category = "exclusions" ->
                 F("derived", "exercise_exclusions").t = "list"
                 /\ F("derived", "exercise_exclusions").n > 0

\* the categories in their evaluation order
PriorityOrder == << "ftp", "fueling", "long ride", "alcohol", "sleep", "exclusions" >>

TriggeredInOrder == SelectSeq(PriorityOrder, PriorityTriggers)

\* C16: generate_coaching_priorities returns at most 5 entries, in the fixed
\* order FTP, fueling, long-ride data, alcohol, sleep, exercise exclusions; when
\* more than 5 categories trigger, exactly the first 5 in that order are kept.
C16_PrioritiesCappedInOrder ==
    PrioritiesReturned =>
        /\ Len(coaching_priorities) <= 5
        /\ Len(coaching_priorities) = IF Len(TriggeredInOrder) > 5 THEN 5
                                      ELSE Len(TriggeredInOrder)
        /\ \A i \in 1..Len(coaching_priorities) :
               PriorityCategory(coaching_priorities[i]) = TriggeredInOrder[i]

\* all six categories trigger and the exercise exclusions are dropped
C16_Witness ==
    /\ PrioritiesReturned
    /\ Len(TriggeredInOrder) = 6
    /\ Len(coaching_priorities) = 5
    /\ coaching_priorities[1] = "Retest FTP"
    /\ coaching_priorities[5] = "Optimize sleep"

\* ------------------------------------------------------ the rider ability
\* the answers classify_rider_ability reads, tried in every combination
AbilityAnswers(k) ==
    CASE k = <<"health_factors", "age">> ->
             { Absent, Null, Num(39), Num(40), Num(45) }
      [] k = <<"training_history", "years_structured">> ->
             { Absent, Null, Num(1), Num(2), Num(4), Num(5), Num(6) }
      [] k = <<"fitness_markers", "w_kg">> ->
             { Absent, Null, Num(34), Num(35), Num(38), Num(39), Num(40) }
      [] k = <<"training_history", "years_cycling">> ->
             { Absent, Str("10+"), Str("6-10"), Str("3-5") }
      [] k = <<"recent_training", "last_12_weeks">> ->
             { Absent, Str("consistent"), Str("sporadic") }
      [] OTHER -> { Absent }

InitAbility ==
    /\ NoPlan
    /\ pc = "classify_rider_ability"
    /\ \E age              \in AbilityAnswers(<<"health_factors", "age">>),
          years_structured \in AbilityAnswers(<<"training_history", "years_structured">>),
          w_kg             \in AbilityAnswers(<<"fitness_markers", "w_kg">>),
          years_cycling    \in AbilityAnswers(<<"training_history", "years_cycling">>),
          consistency      \in AbilityAnswers(<<"recent_training", "last_12_weeks">>) :
           fld = [ k \in AllKeys |->
                   CASE k = <<"health_factors", "age">>                -> age
                     [] k = <<"training_history", "years_structured">> -> years_structured
                     [] k = <<"fitness_markers", "w_kg">>              -> w_kg
                     [] k = <<"training_history", "years_cycling">>    -> years_cycling
                     [] k = <<"recent_training", "last_12_weeks">>     -> consistency
                     [] OTHER                                          -> Absent ]
    /\ nullsec = {}
    /\ cur_injuries = [t |-> "absent", items |-> <<>>]
    /\ today = Today1
    /\ risk_history = <<>>
    /\ NoDash
    /\ NoGuide

NextAbility ==
    \/ CallClassifyRiderAbility

SpecAbility == InitAbility /\ [][NextAbility]_vars

AbilityLabels == { "MASTERS ADVANCED", "MASTERS INTERMEDIATE", "MASTERS BEGINNER",
                   "ADVANCED", "INTERMEDIATE", "BEGINNER" }

\* the number a field holds: the number set, or 0 when the field is absent or null
NumberOr0(v) == IF v.t = "num" THEN v.n ELSE 0

\* the label the rule gives (W/kg in tenths)
AbilityByRule ==
    LET age   == NumberOr0(F("health_factors", "age"))
        ys    == NumberOr0(F("training_history", "years_structured"))
        w_kg  == NumberOr0(F("fitness_markers", "w_kg"))
        long  == F("training_history", "years_cycling") \in { Str("10+"), Str("6-10") }
        consistent == F("recent_training", "last_12_weeks") = Str("consistent")
    IN  IF age >= 40
        THEN IF ys >= 5 /\ w_kg >= 35 THEN "MASTERS ADVANCED"
             ELSE IF ys >= 2 THEN "MASTERS INTERMEDIATE"
             ELSE "MASTERS BEGINNER"
        ELSE IF long /\ ys >= 5 /\ w_kg >= 40 THEN "ADVANCED"
             ELSE IF ys >= 1 \/ consistent THEN "INTERMEDIATE"
             ELSE "BEGINNER"

AbilityCalled == pc = "get_tier_reasoning"

\* C17: classify_rider_ability always returns one of the six labels, the one
\* the rule gives: the Masters labels for age >= 40, gated on years_structured
\* and W/kg, and ADVANCED / INTERMEDIATE / BEGINNER below 40; so age 45,
\* years_structured 6, w_kg 3.8 gives MASTERS ADVANCED.
C17_AbilityDecisionTable ==
    AbilityCalled =>
        /\ rider_ability \in AbilityLabels
        /\ rider_ability = AbilityByRule
        /\ ( /\ F("health_factors", "age") = Num(45)
             /\ F("training_history", "years_structured") = Num(6)
             /\ F("fitness_markers", "w_kg") = Num(38) )
               => rider_ability = "MASTERS ADVANCED"

\* ---------------------------------------------------- the training system
\* the answers recommend_training_system reads, tried in every combination
SystemAnswers(k) ==
    CASE k = <<"derived", "tier">> ->
             { Absent, Null, Str("ayahuasca"), Str("finisher"), Str("compete"),
               Str("podium") }
      [] k = <<"training_history", "years_structured">> ->
             { Absent, Null, Num(2), Num(3), Num(4), Num(5) }
      [] k = <<"methodology_preferences", "preferred_approach">> ->
             { Absent, Null, Str("polarized"), Str("Polarized"),
               Str("polarized 80/20"), Str("block") }
      [] OTHER -> { Absent }

InitSystem ==
    /\ NoPlan
    /\ pc = "recommend_training_system"
    /\ \E tier             \in SystemAnswers(<<"derived", "tier">>),
          years_structured \in SystemAnswers(<<"training_history", "years_structured">>),
          preferred        \in SystemAnswers(<<"methodology_preferences",
                                               "preferred_approach">>) :
           fld = [ k \in AllKeys |->
                   CASE k = <<"derived", "tier">>                       -> tier
                     [] k = <<"training_history", "years_structured">>  -> years_structured
                     [] k = <<"methodology_preferences", "preferred_approach">> -> preferred
                     [] OTHER                                           -> Absent ]
    /\ nullsec \in { {}, {"methodology_preferences"}, {"training_history"} }
    /\ cur_injuries = [t |-> "absent", items |-> <<>>]
    /\ today \in Todays
    /\ risk_history = <<>>
    /\ NoDash
    /\ NoGuide

NextSystem ==
    \/ CallRecommendTrainingSystem

SpecSystem == InitSystem /\ [][NextSystem]_vars

SystemCalled == pc = "identify_limiter"

TrainingSystems == { "BLOCK PERIODIZATION", "POLARIZED -> BLOCK (transition)",
                     "POLARIZED", "POLARIZED (foundation)" }

\* the recommendation the decision table gives; a profile without a tier is
\* a compete profile
SystemByTable ==
    LET tier == IF F("derived", "tier") = Absent THEN "compete" ELSE F("derived", "tier").s
        ys   == NumberOr0(F("training_history", "years_structured"))
        preferred == F("methodology_preferences", "preferred_approach")
        prefers_polarized ==
            preferred \in { Str("polarized"), Str("Polarized"), Str("polarized 80/20") }
    IN  IF tier = "podium" /\ ys >= 5 THEN "BLOCK PERIODIZATION"
        ELSE IF tier \in {"compete", "podium"} /\ ys >= 3
        THEN IF prefers_polarized THEN "POLARIZED -> BLOCK (transition)" ELSE "POLARIZED"
        ELSE IF tier = "finisher" THEN "POLARIZED"
        ELSE "POLARIZED (foundation)"

\* C18: recommend_training_system is the decision table over tier,
\* years_structured and stated preference: podium with years_structured >= 5
\* gives Block Periodization whatever the preference; otherwise compete or
\* podium with years_structured >= 3 gives Polarized, or the transition when the
\* preference contains 'polarized'; otherwise finisher gives Polarized; every
\* other combination gives Polarized (foundation).  Every recommendation
\* returned is the table's, and one is returned for every input without a null.
C18_TrainingSystemTable ==
    SystemCalled =>
        /\ training_system \in TrainingSystems \cup Exceptions
        /\ training_system \in TrainingSystems => training_system = SystemByTable
        /\ (nullsec = {} /\ \A k \in AllKeys : fld[k] # Null)
               => training_system \in TrainingSystems

\* a podium athlete with five structured years who prefers polarized training
C18_Witness ==
    /\ SystemCalled
    /\ F("derived", "tier") = Str("podium")
    /\ F("training_history", "years_structured") = Num(5)
    /\ F("methodology_preferences", "preferred_approach") = Str("polarized")
    /\ training_system = "BLOCK PERIODIZATION"

\* ------------------------------------------------------ the race calendar
\* the 'date' values tried for an event
EventDates == { Absent, Str("2026-12-05"), Str("2027-05-15"), Str("2099-12-31"),
                Str("2100-06-01"), Str("TBD") }

\* the values of a_events, b_events or c_events: the key absent, null, or a
\* list of at most MaxEvents events named after their place in the list
EventLists(prefix) ==
    { [t |-> "absent", items |-> <<>>], [t |-> "null", items |-> <<>>] }
    \cup { [t |-> "list",
            items |-> [ i \in 1..Len(dates) |-> Event(prefix[i], dates[i]) ]] :
               dates \in SeqsUpTo(EventDates, MaxEvents) }

\* the values of target_race: the key absent, null, or a dict
TargetRaces ==
    { [t |-> "absent", name |-> Absent, date |-> Absent],
      [t |-> "null", name |-> Absent, date |-> Absent] }
    \cup { [t |-> "dict", name |-> name, date |-> date] :
               name \in { Absent, Str(""), Str("Unbound 200") },
               date \in { Absent, Str("2027-05-15") } }

InitRaces ==
    /\ NoPlan
    /\ pc = "race_timeline_call"
    /\ fld = [ k \in AllKeys |-> Absent ]
    /\ nullsec = {}
    /\ cur_injuries = [t |-> "absent", items |-> <<>>]
    /\ today = Today1
    /\ risk_history = <<>>
    /\ NoDash
    /\ blindspots = NoBlindspots
    /\ nutrition = NoNutrition
    /\ \E target \in TargetRaces,
          a \in EventLists(<<"a1", "a2", "a3">>),
          b \in EventLists(<<"b1", "b2", "b3">>),
          c \in EventLists(<<"c1", "c2", "c3">>) :
           race_profile = [target_race |-> target, a_events |-> a,
                           b_events |-> b, c_events |-> c]
    /\ all_events = [exc |-> "pending", events |-> <<>>]
    /\ previous_run = <<>>
    /\ NoIntake

\* _generate_race_timeline is run on the profile
GenerateRaceTimeline ==
    /\ pc = "race_timeline_call"
    /\ all_events' = _generate_race_timeline(race_profile)
    /\ pc' = "race_timeline_done"
    /\ UNCHANGED <<planData, profVars, risk_history, dashVars, blindspots, nutrition,
                   race_profile, previous_run, intakeVars>>

NextRaces ==
    \/ GenerateRaceTimeline

SpecRaces == InitRaces /\ [][NextRaces]_vars

TimelineReturned == pc = "race_timeline_done" /\ all_events.exc = "none"

\* an event has a date that parses
Dated(e) == e.date.t = "str" /\ ParseDate(e.date.s).ok

DateOf(e) == ParseDate(e.date.s).ord

\* C19: the merged event list is sorted ascending by date, and every event
\* whose date is missing or unparseable comes after all events that have a
\* parseable date.
C19_EventsSortedUndatedLast ==
    TimelineReturned =>
        \A i, j \in 1..Len(all_events.events) :
            LET e == all_events.events[i]
                f == all_events.events[j]
            IN  /\ (i < j /\ Dated(e) /\ Dated(f)) => DateOf(e) <= DateOf(f)
                /\ (Dated(e) /\ ~Dated(f)) => i < j

\* the profile supplies an event list
ExplicitEventList ==
    \/ EventItems(race_profile.a_events) # <<>>
    \/ EventItems(race_profile.b_events) # <<>>
    \/ EventItems(race_profile.c_events) # <<>>

\* the profile has a target race: a target_race with a name
HasTargetRace ==
    /\ race_profile.target_race.t = "dict"
    /\ Truthy(race_profile.target_race.name)

\* C20: without a structured event list and with a target race, the calendar
\* is exactly one event, of priority A, synthesized from the target race; with
\* an explicit event list (A, B or C events) no event is synthesized.
C20_TargetRaceSynthesized ==
    TimelineReturned =>
        /\ (~ExplicitEventList /\ HasTargetRace) =>
               /\ Len(all_events.events) = 1
               /\ all_events.events[1].priority = "A"
               /\ all_events.events[1].synthesized
               /\ all_events.events[1].name = race_profile.target_race.name.s
        /\ ExplicitEventList =>
               \A i \in 1..Len(all_events.events) : ~all_events.events[i].synthesized

\* ------------------------------------------------ two derivation runs
\* the answers of the profile the two runs are made on
RunAnswers(k) ==
    CASE k = <<"profile", "birthday">> ->
             { Absent, Str("1981-11-01"), Str("1981-11-02"), Str("1990-05-20") }
      [] k = <<"fitness_markers", "ftp_date">> ->
             { Absent, Str("2026-08-01"), Str("2026-08-31"), Str("2026-10-20") }
      [] k = <<"fitness_markers", "ftp_watts">> ->
             { Absent, Num(220) }
      [] k = <<"health_factors", "age">> ->
             { Absent, Num(50) }
      [] k = <<"profile", "weight_kg">> ->
             { Absent, Num(95) }
      [] k = <<"lifestyle", "weight_goal">> ->
             { Absent, Str("lose_slow") }
      [] k = <<"health_factors", "sleep_quality">> ->
             { Absent, Str("poor") }
      [] OTHER -> { Absent }

InitRuns ==
    /\ NoPlan
    /\ pc = "derivation_run"
    /\ \E birthday  \in RunAnswers(<<"profile", "birthday">>),
          ftp_date  \in RunAnswers(<<"fitness_markers", "ftp_date">>),
          ftp_watts \in RunAnswers(<<"fitness_markers", "ftp_watts">>),
          age       \in RunAnswers(<<"health_factors", "age">>),
          weight    \in RunAnswers(<<"profile", "weight_kg">>),
          goal      \in RunAnswers(<<"lifestyle", "weight_goal">>),
          quality   \in RunAnswers(<<"health_factors", "sleep_quality">>) :
           fld = [ k \in AllKeys |->
                   CASE k = <<"profile", "birthday">>             -> birthday
                     [] k = <<"fitness_markers", "ftp_date">>     -> ftp_date
                     [] k = <<"fitness_markers", "ftp_watts">>    -> ftp_watts
                     [] k = <<"health_factors", "age">>           -> age
                     [] k = <<"profile", "weight_kg">>            -> weight
                     [] k = <<"lifestyle", "weight_goal">>        -> goal
                     [] k = <<"health_factors", "sleep_quality">> -> quality
                     [] OTHER                                     -> Absent ]
    /\ nullsec = {}
    /\ cur_injuries = [t |-> "absent", items |-> <<>>]
    /\ today = Today1
    /\ risk_history = <<>>
    /\ NoDash
    /\ NoGuide

\* what a run hands to the renderers
RunOutputs ==
    [nutrition |-> nutrition, blindspots |-> blindspots,
     coaching_priorities |-> coaching_priorities]

\* one derivation run: the nutrition section and the blindspots of the guide
\* and the coaching priorities of the dashboard, each reading the clock
DerivationRun ==
    /\ pc = "derivation_run"
    /\ nutrition' = _generate_nutrition_section(today)
    /\ blindspots' = _generate_blindspots(cur_injuries, today)
    /\ coaching_priorities' = generate_coaching_priorities(today).val
    /\ raised' = [raised EXCEPT !["generate_coaching_priorities"] =
                                    generate_coaching_priorities(today).exc]
    /\ pc' = "run_done"
    /\ UNCHANGED <<planData, profVars, risk_history, risk_level, rider_ability,
                   tier_reasoning, training_system, limiter, race_profile, all_events,
                   previous_run, intakeVars>>

\* the same profile is derived again on a later day
NextDay ==
    /\ pc = "run_done"
    /\ previous_run = <<>>
    /\ \E later \in Todays :
           /\ later.ord > today.ord
           /\ today' = later
    /\ previous_run' = << RunOutputs >>
    /\ pc' = "derivation_run"
    /\ UNCHANGED <<planData, fld, nullsec, cur_injuries, risk_history, dashVars,
                   guideVars, intakeVars>>

NextRuns ==
    \/ DerivationRun
    \/ NextDay

SpecRuns == InitRuns /\ [][NextRuns]_vars

SecondRunDone == pc = "run_done" /\ previous_run # <<>>

\* C21: for a fixed profile, two derivation runs made on different calendar
\* dates produce identical nutrition targets, blindspot lists and coaching
\* priorities.
C21_RunsIndependentOfDate ==
    SecondRunDone => previous_run[1] = RunOutputs

\* ------------------------------------------------- validate_submission.py
\* validate_email(email): the error message, "" for a valid address; the
\* regular expression and the provider list applied to the addresses tried
validate_email(email) ==
    CASE email = ""                   -> "Email is required"
      [] email = "ana.example.org"    -> "Invalid email format"
      [] email = "tmp@mailinator.com" -> "Disposable email providers are not allowed"
      [] OTHER                        -> ""

\* the file's entries: a function from <<email key, day>> to the number of
\* timestamps listed under that day, the day being the date's ordinal
NoEntries == [ e \in {} |-> 0 ]

\* a limit that turns away the seventh submission
check_rate_limit_above_limit(email, limits, now) ==
    LET entry == << EmailKey(email), now.ord >>
    IN  IF ~limits.exists THEN TRUE
        ELSE IF entry \notin DOMAIN limits.data THEN TRUE
        ELSE ~(limits.data[entry] > 5)

\* check_rate_limit(email): TRUE to allow, with max_per_day = 5
check_rate_limit(email, limits, now) ==
    LET entry == << EmailKey(email), now.ord >>
    IN  IF ~limits.exists THEN TRUE
        ELSE IF \A e \in DOMAIN limits.data : e[1] # EmailKey(email) THEN TRUE
        ELSE IF entry \notin DOMAIN limits.data THEN TRUE
        ELSE ~(limits.data[entry] >= 5)

\* rate_limits[email_key][today].append(...) on what was loaded
Appended(email, data, now) ==
    LET entry == << EmailKey(email), now.ord >>
    IN  [ e \in DOMAIN data \cup {entry} |->
            IF e = entry
            THEN (IF entry \in DOMAIN data THEN data[entry] ELSE 0) + 1
            ELSE data[e] ]

\* the clean-up loop: an entry is deleted when midnight of its date is before
\* now - 7 days, now being past midnight
CleanedUp(data, now) ==
    [ e \in { x \in DOMAIN data : ~(x[2] <= now.ord - 7) } |-> data[e] ]

\* record_submission(email) on the file as loaded: the exception raised, or
\* "none" with the file as written.  datetime.replace(day=now.day - 7) raises
\* ValueError unless 1 <= now.day - 7
record_submission(email, loaded, now) ==
    LET data == IF loaded.exists THEN loaded.data ELSE NoEntries
    IN  IF now.d - 7 < 1
        THEN [exc |-> "ValueError", limits |-> loaded]
        ELSE [exc |-> "none",
              limits |-> [exists |-> TRUE,
                          data |-> CleanedUp(Appended(email, data, now), now)]]

\* data.get(field) of the form
FormGet(f, field) == GetNone(f.data[field])

\* validate_required_fields(data): the errors
validate_required_fields(f) ==
    { "Missing required field: " \o field :
          field \in { x \in {"name", "email", "primary_goal"} : ~Truthy(FormGet(f, x)) } }
    \cup (IF /\ FormGet(f, "primary_goal") = Str("specific_race")
              /\ (~Truthy(FormGet(f, "race_name")) \/ ~Truthy(FormGet(f, "race_date")))
           THEN {"Race name and date required for specific race goal"} ELSE {})

\* validate_age(int(data['age'])), called for a truthy age only
validate_age(age) ==
    IF Truthy(age) /\ (age.n < 18 \/ age.n > 99)
    THEN {"Age must be between 18 and 99"} ELSE {}

\* max_hours of a weekly_volume answer
MaxHours(volume) ==
    CASE volume = Str("9-12")  -> 12
      [] volume = Str("30-45") -> 45
      [] volume = Str("15+")   -> 40
      [] volume.t = "num"      -> volume.n
      [] OTHER                 -> 0

\* validate_weekly_hours(max_hours)
validate_weekly_hours(hours) ==
    IF hours # 0 /\ (hours < 0 \/ hours > 40)
    THEN {"Weekly hours must be between 0 and 40"} ELSE {}

\* validate_schedule(data)
validate_schedule(f) ==
    IF f.days < 3
    THEN {"At least 3 days per week must be available for training"} ELSE {}

\* the errors validate_submission collects before it records the submission
SubmissionErrors(email, f, limits, now) ==
    (IF validate_email(email) # "" THEN {validate_email(email)} ELSE {})
    \cup (IF ~check_rate_limit(email, limits, now)
          THEN {"Rate limit exceeded. Maximum 5 submissions per day."} ELSE {})
    \cup validate_required_fields(f)
    \cup (IF f.data["age"].t # "absent" THEN validate_age(f.data["age"]) ELSE {})
    \cup (IF f.data["weekly_volume"].t # "absent"
          THEN validate_weekly_hours(MaxHours(f.data["weekly_volume"])) ELSE {})
    \cup validate_schedule(f)

\* validate_submission(email, data_str): what the call returns or raises, and
\* the rate-limit file it leaves
validate_submission(email, f, limits, now) ==
    LET errors   == SubmissionErrors(email, f, limits, now)
        recorded == record_submission(email, limits, now)
    IN  IF errors # {}
        THEN [outcome |-> "rejected", errors |-> errors, limits |-> limits]
        ELSE IF recorded.exc # "none"
        THEN [outcome |-> recorded.exc, errors |-> {}, limits |-> limits]
        ELSE [outcome |-> "accepted", errors |-> {}, limits |-> recorded.limits]

\* ------------------------------------------- the submissions of one day
\* the days of October 2026, one for each day of the month
SubmissionDay(d) == Date(2026, 10, d, 739889 + d)

SubmissionDays == { SubmissionDay(d) : d \in 1..31 }

\* a form that passes every check, and one with two days available
GoodForm ==
    [data |-> [ k \in FormFields |->
                  CASE k = "name"         -> Str("Ana")
                    [] k = "email"        -> Str("ana@example.org")
                    [] k = "primary_goal" -> Str("General fitness")
                    [] OTHER              -> Absent ],
     limitations |-> {}, days |-> 3]

TwoDayForm == [GoodForm EXCEPT !.days = 2]

\* the rate-limit file at the start of the day: missing, empty, or holding
\* what earlier runs wrote
InitialFiles(now) ==
    { [exists |-> FALSE, data |-> NoEntries],
      [exists |-> TRUE, data |-> NoEntries],
      [exists |-> TRUE, data |-> [ e \in { <<"ana@example.org", now.ord>> } |-> 4 ]],
      [exists |-> TRUE,
       data |-> [ e \in { <<"ana@example.org", now.ord - 1>>,
                          <<"ana@example.org", now.ord - 7>>,
                          <<"bo@example.org", now.ord - 8>> } |->
                    IF e[2] = now.ord - 1 THEN 5 ELSE 1 ]] }

\* the number of timestamps the file lists for the key and the day
Recorded(limits, key, now) ==
    IF limits.exists /\ <<key, now.ord>> \in DOMAIN limits.data
    THEN limits.data[<<key, now.ord>>] ELSE 0

InitSubmissions ==
    /\ NoPlan
    /\ pc = "validate_submission"
    /\ fld = [ k \in AllKeys |-> Absent ]
    /\ nullsec = {}
    /\ cur_injuries = [t |-> "absent", items |-> <<>>]
    /\ today \in SubmissionDays
    /\ risk_history = <<>>
    /\ NoDash
    /\ blindspots = NoBlindspots
    /\ nutrition = NoNutrition
    /\ race_profile = NoRaces
    /\ all_events = [exc |-> "pending", events |-> <<>>]
    /\ previous_run = <<>>
    /\ form = NoForm
    /\ submission = [outcome |-> "pending", errors |-> {}, email |-> "", calls |-> 0]
    /\ created = [exc |-> "pending", line |-> 0]
    /\ rate_limits \in InitialFiles(today)
    /\ runs = <<>>
    /\ accepted = [ k \in EmailKeys |-> Recorded(rate_limits, k, today) ]

\* one call of validate_submission, from the parse of the data to the return
Submit ==
    /\ pc = "validate_submission"
    /\ submission.calls < MaxSubmissions
    /\ \E email \in Emails, f \in { GoodForm, TwoDayForm } :
         LET result == validate_submission(email, f, rate_limits, today)
         IN  /\ form' = f
             /\ submission' = [outcome |-> result.outcome, errors |-> result.errors,
                               email |-> email, calls |-> submission.calls + 1]
             /\ rate_limits' = result.limits
             /\ accepted' = IF result.outcome = "accepted"
                            THEN [accepted EXCEPT ![EmailKey(email)] = @ + 1]
                            ELSE accepted
    /\ UNCHANGED <<planVars, profVars, risk_history, dashVars, guideVars, previous_run,
                   created, runs>>

NextSubmissions ==
    \/ Submit

SpecSubmissions == InitSubmissions /\ [][NextSubmissions]_vars

RateLimitError == "Rate limit exceeded. Maximum 5 submissions per day."

\* C22: over the validate_submission calls of one day at most 5 submissions
\* per email address, compared case-insensitively, are accepted and
\* recorded, and once 5 are recorded for the address every further
\* submission is rejected with the rate-limit error, its other checks passing
\* or not.
C22_AtMostFivePerDay ==
    /\ [](\A k \in EmailKeys :
            /\ accepted[k] <= 5
            /\ accepted[k] = Recorded(rate_limits, k, today))
    /\ [][\A email \in Emails :
            (Recorded(rate_limits, EmailKey(email), today) >= 5 /\ submission'.email = email)
                => /\ submission'.outcome = "rejected"
                   /\ RateLimitError \in submission'.errors
                   /\ rate_limits' = rate_limits]_vars

\* the sixth submission of an address, written in capitals, is turned away
\* although the form passes every other check
C22_Witness ==
    /\ accepted["ana@example.org"] = 5
    /\ submission.email = "Ana@Example.org"
    /\ form = GoodForm
    /\ submission.outcome = "rejected"
    /\ submission.errors = {RateLimitError}

\* C23: on every day of the month record_submission completes without
\* raising: the submission is appended under the email's entry for today,
\* the entries dated more than 7 days ago are removed together with the
\* emails left without entries, and the store is persisted.
C23_RecordSubmissionCompletes ==
    (submission.outcome # "pending" /\ submission.errors = {})
        => /\ submission.outcome = "accepted"
           /\ rate_limits.exists
           /\ Recorded(rate_limits, EmailKey(submission.email), today) >= 1
           /\ \A e \in DOMAIN rate_limits.data : e[2] >= today.ord - 7

\* ------------------------------------------ two runs of validate_submission
\* the two processes that run validate_submission on the same file
Runs == 1..2

Run(at, email, f, loaded) == [pc |-> at, email |-> email, form |-> f, loaded |-> loaded]

NoFile == [exists |-> FALSE, data |-> NoEntries]

InitConcurrent ==
    /\ NoPlan
    /\ pc = "validate_submission"
    /\ fld = [ k \in AllKeys |-> Absent ]
    /\ nullsec = {}
    /\ cur_injuries = [t |-> "absent", items |-> <<>>]
    /\ today \in { SubmissionDay(1), SubmissionDay(20) }
    /\ risk_history = <<>>
    /\ NoDash
    /\ blindspots = NoBlindspots
    /\ nutrition = NoNutrition
    /\ race_profile = NoRaces
    /\ all_events = [exc |-> "pending", events |-> <<>>]
    /\ previous_run = <<>>
    /\ form = NoForm
    /\ submission = [outcome |-> "pending", errors |-> {}, email |-> "", calls |-> 0]
    /\ created = [exc |-> "pending", line |-> 0]
    /\ rate_limits \in InitialFiles(today)
    /\ runs \in [ Runs -> { Run("check_rate_limit", email, f, NoFile) :
                               email \in Emails, f \in { GoodForm, TwoDayForm } } ]
    /\ accepted = [ k \in EmailKeys |-> Recorded(rate_limits, k, today) ]

\* lines 164-216 of a run: check_rate_limit opens and loads the file, the
\* other checks read the form only
CheckRateLimit(p) ==
    LET run    == runs[p]
        errors == SubmissionErrors(run.email, run.form, rate_limits, today)
    IN  /\ run.pc = "check_rate_limit"
        /\ IF errors # {}
           THEN /\ runs' = [runs EXCEPT ![p].pc = "returned"]
                /\ submission' = [outcome |-> "rejected", errors |-> errors,
                                  email |-> run.email, calls |-> submission.calls + 1]
           ELSE /\ runs' = [runs EXCEPT ![p].pc = "record_submission"]
                /\ UNCHANGED submission
        /\ UNCHANGED <<planVars, profVars, risk_history, dashVars, guideVars, previous_run,
                       form, created, rate_limits, accepted>>

\* lines 65-71 of record_submission: the file is loaded
RecordLoad(p) ==
    /\ runs[p].pc = "record_submission"
    /\ runs' = [runs EXCEPT ![p].pc = "json.dump", ![p].loaded = rate_limits]
    /\ UNCHANGED <<planVars, profVars, risk_history, dashVars, guideVars, previous_run,
                   form, submission, created, rate_limits, accepted>>

\* lines 73-94 of record_submission and the return of validate_submission:
\* what was loaded is appended to, cleaned up and written over the file
RecordDump(p) ==
    LET run      == runs[p]
        recorded == record_submission(run.email, run.loaded, today)
    IN  /\ run.pc = "json.dump"
        /\ runs' = [runs EXCEPT ![p].pc = "returned"]
        /\ IF recorded.exc # "none"
           THEN /\ submission' = [outcome |-> recorded.exc, errors |-> {},
                                  email |-> run.email, calls |-> submission.calls + 1]
                /\ UNCHANGED <<rate_limits, accepted>>
           ELSE /\ submission' = [outcome |-> "accepted", errors |-> {},
                                  email |-> run.email, calls |-> submission.calls + 1]
                /\ rate_limits' = recorded.limits
                /\ accepted' = [accepted EXCEPT ![EmailKey(run.email)] = @ + 1]
        /\ UNCHANGED <<planVars, profVars, risk_history, dashVars, guideVars, previous_run,
                       form, created>>

NextConcurrent ==
    \/ \E p \in Runs : CheckRateLimit(p)
    \/ \E p \in Runs : RecordLoad(p)
    \/ \E p \in Runs : RecordDump(p)

SpecConcurrent == InitConcurrent /\ [][NextConcurrent]_vars

BothReturned == \A p \in Runs : runs[p].pc = "returned"

\* C30: when two validate_submission runs interleave their check_rate_limit
\* read and their record_submission read-modify-write of the rate-limit
\* file, no accepted submission is lost from the store and the number of
\* submissions accepted for one email on one day never exceeds 5.
C30_InterleavedRunsKeepLimit ==
    \A k \in EmailKeys :
        /\ accepted[k] <= 5
        /\ BothReturned => Recorded(rate_limits, k, today) = accepted[k]

\* --------------------------------------------- create_profile_from_form.py
\* convert_primary_goal(form_goal) on the goals tried
convert_primary_goal(form_goal) ==
    CASE form_goal = "Specific race(s)" -> "specific_race"
      [] form_goal = "General fitness"  -> "general_fitness"
      [] OTHER                          -> form_goal

\* parse_weekly_volume(volume): <<min_hours, max_hours>>
parse_weekly_volume(volume) ==
    CASE ~Truthy(volume)       -> << 0, 0 >>
      [] volume = Str("15+")   -> << 15, 40 >>
      [] volume = Str("0-2")   -> << 0, 2 >>
      [] volume = Str("9-12")  -> << 9, 12 >>
      [] volume = Str("30-45") -> << 30, 45 >>

\* parse_race_list(race_list): the name and the date found on each line
parse_race_list(race_list) ==
    CASE race_list = Str("Unbound Gravel 200 (June 7)") ->
             << [name |-> Str("Unbound Gravel 200"), date |-> Str("June 7")] >>
      [] race_list = Str("(June 7)") ->
             << [name |-> Str(""), date |-> Str("June 7")] >>
      [] OTHER -> << >>

\* datetime.now().strftime('%Y-%m-%d')
strftime(now) ==
    CASE now = Today1 -> "2026-11-01"
      [] now = Today2 -> "2026-11-02"
      [] now = ParseDate("2026-10-20") -> "2026-10-20"

\* 'stress_level' with the two levels exchanged
StressLevelExchanged(job_stress) == IF job_stress.n <= 3 THEN "high" ELSE "moderate"

\* 'stress_level': 'moderate' if int(form_data.get('job_stress', 3)) <= 3 else 'high'
StressLevel(job_stress) == IF job_stress.n <= 3 THEN "moderate" ELSE "high"

\* the limitation named by a box of the form, or None
Limitation(f, boxes, value) == IF f.limitations \cap boxes # {} THEN Str(value) ELSE Null

\* create_profile_from_form(athlete_id, form_data): the exception raised and
\* the line that raises it, or "none" with the profile: the value of every
\* field the generators read, the sections that are null, the current
\* injuries by severity and the target race
create_profile_from_form(f, now) ==
    LET hours         == parse_weekly_volume(Get(f.data["weekly_volume"], Str("0-2")))
        min_hours     == hours[1]
        max_hours     == hours[2]
        primary_races == parse_race_list(Get(f.data["race_list"], Str("")))
        race_name     == FormGet(f, "race_name")
        has_race      == primary_races # <<>> \/ Truthy(race_name)
        target_name   == IF primary_races # <<>> THEN primary_races[1].name
                         ELSE Get(f.data["race_name"], Str(""))
        target_date   == IF primary_races # <<>> THEN primary_races[1].date
                         ELSE Get(f.data["race_date"], Str(""))
        age           == FormGet(f, "age")
        current_ftp   == FormGet(f, "current_ftp")
        group_rides   == GT(Get(f.data["group_rides_per_week"], Num(0)), 0)
        fields == [ k \in AllKeys |->
            CASE k = <<"training_history", "years_cycling">> -> Str("0-2")
              [] k = <<"training_history", "years_structured">> ->
                     Get(f.data["years_structured"], Num(0))
              [] k = <<"training_history", "strength_background">> -> Str("intermediate")
              [] k = <<"training_history", "highest_weekly_hours">> -> Num(max_hours)
              [] k = <<"training_history", "current_weekly_hours">> -> Num(min_hours)
              [] k = <<"fitness_markers", "ftp_watts">> ->
                     IF Truthy(current_ftp) THEN current_ftp ELSE Null
              [] k = <<"fitness_markers", "ftp_date">> ->
                     IF Truthy(current_ftp) THEN Str(strftime(now)) ELSE Null
              [] k = <<"fitness_markers", "weight_kg">> -> Null
              [] k = <<"fitness_markers", "w_kg">> -> Null
              [] k = <<"recent_training", "last_12_weeks">> -> Str("consistent")
              [] k = <<"weekly_availability", "total_hours_available">> -> Num(max_hours + 2)
              [] k = <<"weekly_availability", "cycling_hours_target">> -> Num(max_hours)
              [] k = <<"schedule_constraints", "travel_frequency">> -> Str("none")
              [] k = <<"injury_history", "past_injuries">> -> List(0)
              [] k = <<"movement_limitations", "deep_squat">> ->
                     Limitation(f, {"deep_squat_painful"}, "painful")
              [] k = <<"movement_limitations", "single_leg_balance">> ->
                     Limitation(f, {"single_leg_balance"}, "limited")
              [] k = <<"movement_limitations", "push_up_position">> ->
                     Limitation(f, {"pushups_shoulders"}, "painful")
              [] k = <<"movement_limitations", "hip_hinge">> ->
                     Limitation(f, {"hip_mobility", "lower_back"}, "limited")
              [] k = <<"movement_limitations", "notes">> -> Str("")
              [] k = <<"health_factors", "age">> -> IF Truthy(age) THEN age ELSE Null
              [] k = <<"health_factors", "sleep_quality">> -> Str("good")
              [] k = <<"health_factors", "sleep_hours_avg">> ->
                     IF Truthy(FormGet(f, "sleep_hours")) THEN f.data["sleep_hours"]
                     ELSE Num(7)
              [] k = <<"health_factors", "stress_level">> ->
                     Str(StressLevel(Get(f.data["job_stress"], Num(3))))
              [] k = <<"methodology_preferences", "preferred_approach">> -> Str("polarized")
              [] k = <<"target_race", "goal_type">> ->
                     IF has_race /\ Truthy(target_name) THEN Str("compete") ELSE Absent
              [] k = <<"profile", "birthday">> -> Null
              [] OTHER -> Absent ]
    IN  IF group_rides = "E"
        THEN [exc |-> "TypeError", line |-> 436]
        ELSE IF ~has_race
        THEN [exc |-> "TypeError", line |-> 475]
        ELSE [exc |-> "none", line |-> 0,
              fld |-> fields,
              nullsec |-> IF Truthy(target_name) THEN {} ELSE {"target_race"},
              current_injuries |->
                  [t |-> "list",
                   items |-> IF Truthy(FormGet(f, "current_injuries"))
                             THEN <<"moderate">> ELSE <<>>],
              target_race |->
                  IF Truthy(target_name)
                  THEN [t |-> "dict", name |-> target_name, date |-> target_date]
                  ELSE [t |-> "null", name |-> Absent, date |-> Absent]]

\* ------------------------------------------- from the form to the dashboard
\* the answers of the form, tried in every combination
FormAnswers(field) ==
    CASE field = "primary_goal" ->
             { Str("Specific race(s)"), Str("specific_race"), Str("General fitness") }
      [] field = "race_name"  -> { Absent, Str("Unbound 200") }
      [] field = "race_date"  -> { Absent, Str("2027-05-15") }
      [] field = "race_list"  -> { Absent, Str("Unbound Gravel 200 (June 7)") }
      [] field = "age"        -> { Absent, Num(17), Num(45) }
      [] field = "weekly_volume" -> { Absent, Str("9-12") }
      [] field = "current_ftp"   -> { Absent, Num(250) }
      [] field = "current_injuries" -> { Absent, Str("sore knee") }
      [] field = "job_stress"    -> { Absent, Num(3), Num(4) }
      [] field = "group_rides_per_week" -> { Absent, Num(2), Str("2") }
      [] OTHER -> { Absent }

\* the boxes of "limitations" that map to a movement limitation
LimitationBoxes ==
    { "deep_squat_painful", "single_leg_balance", "pushups_shoulders", "hip_mobility",
      "lower_back" }

\* the answers on sleep, alcohol and fueling, left out or given
LifestyleAnswers(given, field) ==
    CASE given /\ field = "sleep_hours"      -> Num(5)
      [] given /\ field = "alcohol_intake"   -> Str("15 drinks a week")
      [] given /\ field = "fueling_strategy" -> Str("rarely")
      [] OTHER                               -> Absent

InitForm ==
    /\ NoPlan
    /\ pc = "validate_submission"
    /\ fld = [ k \in AllKeys |-> Absent ]
    /\ nullsec = {}
    /\ cur_injuries = [t |-> "absent", items |-> <<>>]
    /\ today = ParseDate("2026-10-20")
    /\ risk_history = <<>>
    /\ NoDash
    /\ blindspots = NoBlindspots
    /\ nutrition = NoNutrition
    /\ race_profile = NoRaces
    /\ all_events = [exc |-> "pending", events |-> <<>>]
    /\ previous_run = <<>>
    /\ \E goal      \in FormAnswers("primary_goal"),
          race_name \in FormAnswers("race_name"),
          race_date \in FormAnswers("race_date"),
          race_list \in FormAnswers("race_list"),
          age       \in FormAnswers("age"),
          volume    \in FormAnswers("weekly_volume"),
          ftp       \in FormAnswers("current_ftp"),
          injuries  \in FormAnswers("current_injuries"),
          stress    \in FormAnswers("job_stress"),
          rides     \in FormAnswers("group_rides_per_week"),
          lifestyle \in BOOLEAN,
          boxes     \in { {} } \cup { {b} : b \in LimitationBoxes },
          days      \in { 2, 3 } :
           form = [data |-> [ k \in FormFields |->
                       CASE k = "name"                 -> Str("Ana")
                         [] k = "email"                -> Str("ana@example.org")
                         [] k = "primary_goal"         -> goal
                         [] k = "race_name"            -> race_name
                         [] k = "race_date"            -> race_date
                         [] k = "race_list"            -> race_list
                         [] k = "age"                  -> age
                         [] k = "weekly_volume"        -> volume
                         [] k = "current_ftp"          -> ftp
                         [] k = "current_injuries"     -> injuries
                         [] k = "job_stress"           -> stress
                         [] k = "group_rides_per_week" -> rides
                         [] OTHER                      -> LifestyleAnswers(lifestyle, k) ],
                   limitations |-> boxes, days |-> days]
    /\ submission = [outcome |-> "pending", errors |-> {}, email |-> "", calls |-> 0]
    /\ created = [exc |-> "pending", line |-> 0]
    /\ rate_limits = NoFile
    /\ runs = <<>>
    /\ accepted = [ k \in EmailKeys |-> 0 ]

\* validate_submission is called on the form
ValidateForm ==
    LET email  == "ana@example.org"
        result == validate_submission(email, form, rate_limits, today)
    IN  /\ pc = "validate_submission"
        /\ submission' = [outcome |-> result.outcome, errors |-> result.errors,
                          email |-> email, calls |-> submission.calls + 1]
        /\ rate_limits' = result.limits
        /\ accepted' = IF result.outcome = "accepted"
                       THEN [accepted EXCEPT ![EmailKey(email)] = @ + 1]
                       ELSE accepted
        /\ pc' = IF result.outcome = "accepted" THEN "create_profile_from_form"
                 ELSE "not_accepted"
        /\ UNCHANGED <<planData, profVars, risk_history, dashVars, guideVars, previous_run,
                       form, created, runs>>

\* create_profile_from_form is called on the accepted form; the profile it
\* returns is written to profile.yaml, which generate_dashboard loads
CreateProfileFromForm ==
    LET profile == create_profile_from_form(form, today)
    IN  /\ pc = "create_profile_from_form"
        /\ created' = [exc |-> profile.exc, line |-> profile.line]
        /\ IF profile.exc = "none"
           THEN /\ fld' = profile.fld
                /\ nullsec' = profile.nullsec
                /\ cur_injuries' = profile.current_injuries
                /\ race_profile' = [race_profile EXCEPT !.target_race = profile.target_race]
                /\ pc' = "get_risk_level"
           ELSE /\ UNCHANGED <<fld, nullsec, cur_injuries, race_profile>>
                /\ pc' = "no_profile"
        /\ UNCHANGED <<planData, today, risk_history, dashVars, blindspots, nutrition,
                       all_events, previous_run, form, submission, rate_limits, runs,
                       accepted>>

NextForm ==
    \/ ValidateForm
    \/ CreateProfileFromForm
    \/ CallGetRiskLevel
    \/ CallClassifyRiderAbility
    \/ CallGetTierReasoning
    \/ CallRecommendTrainingSystem
    \/ CallIdentifyLimiter
    \/ CallGenerateCoachingPriorities

SpecForm == InitForm /\ [][NextForm]_vars

Accepted == submission.outcome = "accepted"

NoRaceGiven ==
    /\ ~Truthy(FormGet(form, "race_list"))
    /\ ~Truthy(FormGet(form, "race_name"))

\* C24: every form accepted by validate_submission is converted by
\* create_profile_from_form into a profile without raising, including the
\* accepted forms that carry no race_list and no race_name, for which
\* target_race is null.
C24_AcceptedFormsConvert ==
    (Accepted /\ created.exc # "pending")
        => /\ created.exc = "none"
           /\ NoRaceGiven => race_profile.target_race.t = "null"

\* C29: every accepted submission whose primary goal maps to
\* 'specific_race' under convert_primary_goal, as the form value
\* 'Specific race(s)' does, carries both a race_name and a race_date.
C29_SpecificRaceCarriesRace ==
    (Accepted /\ convert_primary_goal(FormGet(form, "primary_goal").s) = "specific_race")
        => /\ Truthy(FormGet(form, "race_name"))
           /\ Truthy(FormGet(form, "race_date"))

ProfileCreated == created.exc = "none"

\* C25: for every profile produced by create_profile_from_form,
\* identify_limiter and classify_rider_ability return a value without
\* raising when given that profile and its fitness_markers section.
C25_ClassifiersReturnOnCreatedProfile ==
    (ProfileCreated /\ pc = "dash_done")
        => /\ raised["identify_limiter"] = "none"
           /\ raised["classify_rider_ability"] = "none"

\* the level the form's answers give
LevelOfForm ==
    IF Truthy(FormGet(form, "current_injuries")) THEN "HIGH"
    ELSE IF \/ GT(Get(form.data["job_stress"], Num(3)), 3) = "T"
            \/ form.limitations \cap LimitationBoxes # {}
    THEN "MODERATE"
    ELSE "LOW"

RiskLevelCalled == ProfileCreated /\ pc \notin {"create_profile_from_form", "get_risk_level"}

\* C27: for every profile produced by create_profile_from_form,
\* get_risk_level is HIGH iff the form's current_injuries text is non-empty,
\* otherwise MODERATE iff job_stress > 3 or the limitations include
\* deep_squat_painful, single_leg_balance, pushups_shoulders, hip_mobility or
\* lower_back, otherwise LOW; the sleep, alcohol, fueling and travel answers
\* never change the level.
C27_RiskLevelOfCreatedProfile ==
    RiskLevelCalled => risk_level = LevelOfForm

\* a form with the sleep, alcohol and fueling answers given, a painful deep
\* squat and no injury: the level is MODERATE
C27_Witness ==
    /\ RiskLevelCalled
    /\ Truthy(FormGet(form, "fueling_strategy"))
    /\ form.limitations = {"deep_squat_painful"}
    /\ ~Truthy(FormGet(form, "current_injuries"))
    /\ risk_level = "MODERATE"

\* ------------------------------------------------------------ the limiter
\* the answers identify_limiter reads, tried in every combination
LimiterAnswers(k) ==
    CASE k = <<"nutrition", "fuels_during_rides">> ->
             { Absent, Str("rarely"), Str("always") }
      [] k = <<"fitness_markers", "ftp_watts">> ->
             { Absent, Num(0), Num(220) }
      [] k = <<"fitness_markers", "w_kg">> ->
             { Absent, Null, Num(29), Num(30) }
      [] k = <<"health_factors", "sleep_quality">> ->
             { Absent, Str("poor"), Str("good") }
      [] k = <<"lifestyle", "alcohol_drinks_per_week">> ->
             { Absent, Num(10), Num(11) }
      [] k = <<"recent_training", "last_12_weeks">> ->
             { Absent, Str("sporadic"), Str("consistent") }
      [] OTHER -> { Absent }

InitLimiter ==
    /\ NoPlan
    /\ pc = "identify_limiter"
    /\ \E fueling     \in LimiterAnswers(<<"nutrition", "fuels_during_rides">>),
          ftp_watts   \in LimiterAnswers(<<"fitness_markers", "ftp_watts">>),
          w_kg        \in LimiterAnswers(<<"fitness_markers", "w_kg">>),
          quality     \in LimiterAnswers(<<"health_factors", "sleep_quality">>),
          alcohol     \in LimiterAnswers(<<"lifestyle", "alcohol_drinks_per_week">>),
          consistency \in LimiterAnswers(<<"recent_training", "last_12_weeks">>) :
           fld = [ k \in AllKeys |->
                   CASE k = <<"nutrition", "fuels_during_rides">>      -> fueling
                     [] k = <<"fitness_markers", "ftp_watts">>         -> ftp_watts
                     [] k = <<"fitness_markers", "w_kg">>              -> w_kg
                     [] k = <<"health_factors", "sleep_quality">>      -> quality
                     [] k = <<"lifestyle", "alcohol_drinks_per_week">> -> alcohol
                     [] k = <<"recent_training", "last_12_weeks">>     -> consistency
                     [] OTHER                                          -> Absent ]
    /\ nullsec = {}
    /\ cur_injuries = [t |-> "absent", items |-> <<>>]
    /\ today = Today1
    /\ risk_history = <<>>
    /\ NoDash
    /\ NoGuide

NextLimiter ==
    \/ CallIdentifyLimiter

SpecLimiter == InitLimiter /\ [][NextLimiter]_vars

LimiterReturned == pc = "generate_coaching_priorities" /\ raised["identify_limiter"] = "none"

\* the number a field holds, 0 for a missing field
NumberOrZero(sec, name) == IF F(sec, name).t = "num" THEN F(sec, name).n ELSE 0

\* the six conditions in their fixed order, each with the limiter it names
LimiterConditions ==
    << [holds |-> F("nutrition", "fuels_during_rides") = Str("rarely"),
        limiter |-> "DURABILITY (fueling)"],
       [holds |-> F("fitness_markers", "ftp_watts") \in {Absent, Null, Num(0)},
        limiter |-> "DURABILITY (no long ride data)"],
       [holds |-> NumberOrZero("fitness_markers", "w_kg") < 30,
        limiter |-> "POWER (low W/kg)"],
       [holds |-> F("health_factors", "sleep_quality") = Str("poor"),
        limiter |-> "RECOVERY (sleep)"],
       [holds |-> NumberOrZero("lifestyle", "alcohol_drinks_per_week") > 10,
        limiter |-> "RECOVERY (alcohol)"],
       [holds |-> F("recent_training", "last_12_weeks") = Str("sporadic"),
        limiter |-> "CONSISTENCY"] >>

\* C26: identify_limiter returns the single first-triggered limiter in the
\* fixed order DURABILITY (fueling rarely), DURABILITY (no FTP), POWER (W/kg
\* below 3.0, a missing W/kg counting as 0), RECOVERY (poor sleep), RECOVERY
\* (alcohol above 10 a week), CONSISTENCY (sporadic last 12 weeks), and
\* returns 'NONE IDENTIFIED' iff none of the six conditions holds.
C26_FirstTriggeredLimiter ==
    LimiterReturned =>
        LET triggered == { i \in 1..Len(LimiterConditions) : LimiterConditions[i].holds }
        IN  /\ triggered # {} =>
                   limiter = LimiterConditions[CHOOSE i \in triggered :
                                                   \A j \in triggered : i <= j].limiter
            /\ (limiter = "NONE IDENTIFIED") <=> (triggered = {})

\* W/kg is exactly 3.0 and an FTP is on file: alcohol above 10 a week is
\* returned ahead of the sporadic training that also holds
C26_Witness ==
    /\ LimiterReturned
    /\ F("fitness_markers", "w_kg") = Num(30)
    /\ F("lifestyle", "alcohol_drinks_per_week") = Num(11)
    /\ F("recent_training", "last_12_weeks") = Str("sporadic")
    /\ limiter = "RECOVERY (alcohol)"

====
